---- MODULE Spec2Model ----
(***************************************************************************)
(* State-machine model of the gelNN acquisition layer:                     *)
(*   - the DataSource variants (local simulator, networked HILS client,    *)
(*     multiplexed AD3+Arduino hardware, single-pair AD3 hardware),         *)
(*   - the HILS WebSocket server holding the shared touch position.        *)
(*   - the press classifier (PressClassifierModel) and its model directory,*)
(*   - the monitor loops of the two GUI applications (SingleTerminalApp,  *)
(*     ClassifierApp), which run as Tk event handlers.                     *)
(* One behaviour drives exactly one variant, chosen in Init.  In the       *)
(* networked variant one HILSClientSource (the application) and one        *)
(* HILSGUIApp (src/hils_gui.py, which starts connecting when it is     *)
(* constructed and sends set_touch on every click) talk to one HILSServer. *)
(***************************************************************************)
EXTENDS Integers, Sequences, FiniteSets, TLC

VARIABLES
    variant,   \* which DataSource implementation this behaviour drives
    calls,     \* number of DataSource API calls issued so far
    pc,        \* where the caller's current (blocking) API call stands
    obs,       \* what the caller's most recent API call did and returned
    sim,       \* HILSSimulatorSource fields
    hw,        \* RealHardwareSource / AD3OnlySource fields
    dev,       \* the devices: open analyzer handles, serial port
    cl,        \* HILSClientSource fields
    gui,       \* HILSGUIApp fields
    thr,       \* background threads (one event loop and one socket each)
    conn,      \* WebSocket connections: state and the two message streams
    srv,       \* HILSServer fields and its pending broadcast tasks
    mon,       \* monitor loop of the GUI applications (Tk event loop)
    clf,       \* PressClassifierModel fields
    disk       \* the classifier's model directory

vars == <<variant, calls, pc, obs, sim, hw, dev, cl, gui, thr, conn, srv, mon, clf, disk>>

----------------------------------------------------------------------------
(* Bounds of the model *)

MaxCalls == 3          \* API calls, GUI clicks, peer messages, server stops
MaxPolls == 502        \* status polls counted per measurement (hardware)
MaxOps == 4            \* classifier calls per behaviour
MaxBuf == 7            \* samples in the training buffer
MaxPoints == 4         \* points of one frequency sweep

(* Program constants *)

TIMEOUT_POLLS == 500   \* ad3_only.py: if timeout_count > 500: raise
SWEEP_TIMEOUT_POLLS == 200   \* sweep_impedance: if timeout_count > 200: break
N_PAIRS == 6           \* len(config.MEASUREMENT_PAIRS)
GEL_SIZE == 100        \* GEL_WIDTH = GEL_HEIGHT = 100.0 mm
BASE_IMPEDANCE == 1000 \* config.BASE_IMPEDANCE [Ohm]
DISTANCE_FACTOR == 50  \* config.DISTANCE_FACTOR
DECAY_CONSTANT == 30   \* decay_constant = 30.0 [mm]
PATH_WEIGHT == 7       \* effective_dist = distance * 0.7 + ...  (tenths)
TERMINAL_WEIGHT == 3   \*                  ... + min_terminal_dist * 0.3
NOISE_PERCENT == 1     \* config.NOISE_LEVEL = 0.01
MIN_IMPEDANCE == 100   \* return max(impedance, 100.0)
DefaultCoord == 50     \* touch_x = touch_y = 50.0

Variants == {"sim", "net", "net_stop", "net_raw", "hw", "ad3", "ad3_sweep",
             "SingleTerminalApp", "ClassifierApp", "press", "press_standalone"}
\* The deployments around the HILS server.  "net": HILSClientSource and the
\* HILS GUI are driven through all their operations.  "net_stop":
\* HILSClientSource alone connects to a server that is stopped at some
\* moment.  "net_raw": next to the GUI, which is left alone, a hand-written
\* WebSocket peer is connected and writes any text to its socket.
IsNet == variant \in {"net", "net_stop", "net_raw"}
HasClient == variant \in {"net", "net_stop"}
HasGui == variant \in {"net", "net_raw"}
DefaultPos == <<DefaultCoord, DefaultCoord>>
\* The n-th API call of a behaviour, when it is a set_ground_truth, passes
\* the position InputOf(n): every call passes its own position, x # y.
InputOf(n) == <<10 * n, 10 * n + 1>>
TouchInputs == {InputOf(n) : n \in 1..MaxCalls}

----------------------------------------------------------------------------
(* Observation of API calls *)

\* A sweep result (the dict sweep_impedance returns): five arrays.  `how`
\* and `stored` are history: how the polling of each point ended ("none":
\* not polled yet, "done", "timeout") and whether a reading of the analyzer
\* was stored at that index.
NoSweep ==
    [set |-> FALSE, frequencies |-> <<>>, magnitude |-> <<>>, phase |-> <<>>,
     resistance |-> <<>>, reactance |-> <<>>, how |-> <<>>, stored |-> <<>>]

\* What extract_sweep_features returned: the dict, and (history) the index
\* sets of the three slices it averaged over and the number of points.
NoFeatures == [fields |-> <<>>, n |-> 0, low |-> {}, mid |-> {}, high |-> {}]

NoObs ==
    [op |-> "none", prev |-> "none", res |-> "none", wasConn |-> FALSE,
     io |-> FALSE, reclose |-> FALSE, req |-> 0, rid |-> 0,
     pos |-> DefaultPos, ver |-> 0, reads |-> 0, out |-> NoFeatures,
     vec |-> <<>>]

IdlePc == [at |-> "idle", req |-> 0, pair |-> 0, polls |-> 0, sw |-> NoSweep]

\* is_connected() of the variant driven
IsConnected ==
    CASE variant = "sim" -> sim.connected
      [] IsNet -> cl.connected
      [] OTHER -> hw.connected

\* The caller enters API operation op: a fresh observation record.
Called(op) ==
    [NoObs EXCEPT !.op = op, !.prev = obs.op, !.res = "pending",
                  !.wasConn = IsConnected]

\* The GUI is started before the application: nothing is called while the
\* GUI's connection attempt is still under way.
GuiSettled == HasGui => thr[1].st # "connecting"

CanCall ==
    /\ pc.at = "idle"
    /\ calls < MaxCalls
    /\ GuiSettled

----------------------------------------------------------------------------
(* Exact rationals *)
RECURSIVE Gcd(_, _)
Gcd(a, b) == IF b = 0 THEN a ELSE Gcd(b, a % b)
Abs(a) == IF a < 0 THEN -a ELSE a
Rat(n, d) ==
    LET g == Gcd(Abs(n), d)
    IN  IF n = 0 THEN <<0, 1>> ELSE <<n \div g, d \div g>>
RAdd(a, b) == Rat(a[1] * b[2] + b[1] * a[2], a[2] * b[2])
RSub(a, b) == Rat(a[1] * b[2] - b[1] * a[2], a[2] * b[2])
RZero == <<0, 1>>

----------------------------------------------------------------------------
(* HILSSimulatorSource (src/simulator.py) *)

SimConnect ==
    /\ variant = "sim" /\ CanCall
    /\ sim' = [sim EXCEPT !.connected = TRUE]
    /\ obs' = [Called("connect") EXCEPT !.res = "true"]
    /\ calls' = calls + 1
    /\ UNCHANGED <<variant, mon, clf, disk, pc, hw, dev, cl, gui, thr, conn, srv>>

SimDisconnect ==
    /\ variant = "sim" /\ CanCall
    /\ sim' = [sim EXCEPT !.connected = FALSE]
    /\ obs' = [Called("disconnect") EXCEPT !.res = "ok"]
    /\ calls' = calls + 1
    /\ UNCHANGED <<variant, mon, clf, disk, pc, hw, dev, cl, gui, thr, conn, srv>>

SimSetGroundTruth(p) ==
    /\ variant = "sim" /\ CanCall
    /\ p = InputOf(calls + 1)
    /\ sim' = [sim EXCEPT !.gt = p, !.sets = sim.sets + 1, !.sid = calls + 1]
    /\ obs' = [Called("set") EXCEPT !.res = "ok"]
    /\ calls' = calls + 1
    /\ UNCHANGED <<variant, mon, clf, disk, pc, hw, dev, cl, gui, thr, conn, srv>>

SimGetGroundTruth ==
    /\ variant = "sim" /\ CanCall
    /\ obs' = [Called("get") EXCEPT !.res = "value", !.pos = sim.gt]
    /\ calls' = calls + 1
    /\ UNCHANGED <<variant, mon, clf, disk, pc, sim, hw, dev, cl, gui, thr, conn, srv>>

\* The position the simulated vector is computed from.
SimTouchPos == sim.gt

(* The distance-decay model of _calculate_impedance.  Coordinates are in   *)
(* mm (integers); squared distances are exact rationals; a distance is     *)
(* kept in 1/100 mm, an effective distance in 1/1000 mm and exp() in       *)
(* 1/10000, each rounded down; a magnitude is in Ohm.                     *)

\* config.TERMINAL_POSITIONS by channel (TERMINAL_NAMES: 0 A, 1 B, 2 C, 3 D)
TERMINAL_POSITIONS ==
    [ch \in 0..3 |->
        CASE ch = 0 -> <<0, 0>>
          [] ch = 1 -> <<GEL_SIZE, 0>>
          [] ch = 2 -> <<GEL_SIZE, GEL_SIZE>>
          [] OTHER -> <<0, GEL_SIZE>>]
\* config.MEASUREMENT_PAIRS
MEASUREMENT_PAIRS ==
    << <<0, 1>>, <<0, 3>>, <<1, 2>>, <<1, 3>>, <<2, 3>>, <<0, 2>> >>

VSub(a, b) == <<a[1] - b[1], a[2] - b[2]>>
Dot(a, b) == a[1] * b[1] + a[2] * b[2]
Norm2(a) == Dot(a, a)
\* np.clip(t, 0, 1), on the numerator of t = dot / line_length ** 2
Clip(v, lo, hi) == IF v < lo THEN lo ELSE IF v > hi THEN hi ELSE v

\* The distance to the source terminal, whatever the segment.
SourceDist2(p, s, k) == Rat(Norm2(VSub(p, s)), 1)

\* The square of `distance`: from the touch p to the closest point of the
\* segment source s - sink k (to s itself when the segment has no length).
SegmentDist2(p, s, k) ==
    LET v == VSub(k, s)
        len2 == Norm2(v)
        t == Rat(Clip(Dot(VSub(p, s), v), 0, len2), len2)
        d == <<(p[1] - s[1]) * t[2] - t[1] * v[1],
               (p[2] - s[2]) * t[2] - t[1] * v[2]>>
    IN  IF len2 = 0 THEN Rat(Norm2(VSub(p, s)), 1)
        ELSE Rat(Norm2(d), t[2] * t[2])

\* The largest r in lo..hi-1 with r * r <= x
RECURSIVE Bisect(_, _, _)
Bisect(lo, hi, x) ==
    IF hi - lo <= 1 THEN lo
    ELSE LET mid == (lo + hi) \div 2
         IN  IF mid * mid <= x THEN Bisect(mid, hi, x) ELSE Bisect(lo, mid, x)
\* np.linalg.norm: the root of the squared distance q, in 1/100 mm
Norm(q) ==
    Bisect(0, 20000, (q[1] \div q[2]) * 10000 + ((q[1] % q[2]) * 10000) \div q[2])

\* min(dist_source, dist_sink), in 1/100 mm
MinTerminalDist(p, s, k) ==
    LET ds == Norm(<<Norm2(VSub(p, s)), 1>>)
        dk == Norm(<<Norm2(VSub(p, k)), 1>>)
    IN  IF ds <= dk THEN ds ELSE dk

\* effective_dist = distance * 0.7 + min_terminal_dist * 0.3, in 1/1000 mm
EffectiveDist(p, s, k) ==
    PATH_WEIGHT * Norm(SegmentDist2(p, s, k))
        + TERMINAL_WEIGHT * MinTerminalDist(p, s, k)

\* np.exp(-e / decay_constant) for e in 1/1000 mm, in 1/10000:
\* exp(-x) = exp(-x/16) ** 16, the inner one by its series up to x**4.
ExpDecay(e) ==
    LET S == 10000
        y == e \div ((16 * DECAY_CONSTANT) \div 10)
        y2 == (y * y) \div S
        y3 == (y2 * y) \div S
        y4 == (y3 * y) \div S
        e16 == S - y + y2 \div 2 - y3 \div 6 + y4 \div 24
        e8 == (e16 * e16) \div S
        e4 == (e8 * e8) \div S
        e2 == (e4 * e4) \div S
    IN  (e2 * e2) \div S

\* impedance = BASE_IMPEDANCE + DISTANCE_FACTOR * 100 * (1 - exp(...))
CleanImpedance(e) ==
    BASE_IMPEDANCE + (DISTANCE_FACTOR * 100 * (10000 - ExpDecay(e))) \div 10000

\* np.random.normal(0, NOISE_LEVEL * impedance): a deviate of `sigmas`
\* standard deviations
NoiseSigmas == {-1, 1}
\* The draws of one measurement, one deviate per pair: all low, all high,
\* and high on the odd pairs only
NoiseDraws ==
    {[i \in 1..N_PAIRS |-> s] : s \in NoiseSigmas}
        \cup {[i \in 1..N_PAIRS |-> IF i % 2 = 1 THEN 1 ELSE -1]}
Noise(impedance, sigmas) == sigmas * ((NOISE_PERCENT * impedance) \div 100)

Max(a, b) == IF a >= b THEN a ELSE b

\* _calculate_impedance(touch_pos, source_pos, sink_pos); dist2, eff and
\* clean are history: the squared distance to the segment, the effective
\* distance and the impedance before the noise was added.
\* (mag is filled in by WithNoise.)
CalculateImpedance(p, s, k) ==
    LET e == EffectiveDist(p, s, k)
        z == CleanImpedance(e)
    IN  [dist2 |-> SegmentDist2(p, s, k), eff |-> e, clean |-> z, mag |-> z]

\* impedance += noise; return max(impedance, 100.0)
WithNoise(z, sigmas) ==
    [z EXCEPT !.mag = Max(z.clean + Noise(z.clean, sigmas), MIN_IMPEDANCE)]

\* The loop over config.MEASUREMENT_PAIRS in measure_impedance_vector,
\* before the noise
ImpedanceVector(p) ==
    [i \in 1..N_PAIRS |->
        CalculateImpedance(p, TERMINAL_POSITIONS[MEASUREMENT_PAIRS[i][1]],
                           TERMINAL_POSITIONS[MEASUREMENT_PAIRS[i][2]])]

\* measure_impedance_vector; nz[i] is the noise deviate of pair i
SimMeasure ==
    /\ variant = "sim" /\ CanCall
    /\ IF ~sim.connected
       THEN obs' = [Called("measure") EXCEPT !.res = "notconn"]
       ELSE LET vec == ImpedanceVector(SimTouchPos)
            IN  \E nz \in NoiseDraws :
                  obs' = [Called("measure") EXCEPT
                            !.res = "ok", !.pos = SimTouchPos, !.ver = sim.sets,
                            !.vec = [i \in 1..N_PAIRS |-> WithNoise(vec[i], nz[i])]]
    /\ calls' = calls + 1
    /\ UNCHANGED <<variant, mon, clf, disk, pc, sim, hw, dev, cl, gui, thr, conn, srv>>

----------------------------------------------------------------------------
(* RealHardwareSource (src/src/hardware/hardware.py) and                    *)
(* AD3OnlySource (src/single_terminal_standalone/src/hardware/ad3_only.py)  *)

IsHw == variant \in {"hw", "ad3"}
\* AD3OnlySource is driven through its single-frequency API ("ad3") or
\* through its sweep API ("ad3_sweep").
IsAd3 == variant \in {"ad3", "ad3_sweep"}
HasDevice == IsHw \/ IsAd3

\* except-branch of RealHardwareSource.connect:
\*   if self.arduino and self.arduino.is_open: self.arduino.close()
CloseArduinoIfOpen(a) == IF a = "open" THEN "closed" ELSE a

\* RealHardwareSource.connect; the three outcomes of the environment are
\* whether serial.Serial opens, whether FDwfDeviceOpen finds a device and
\* whether _setup_impedance_analyzer runs through.
HwConnect(serialOk, openOk, setupOk) ==
    /\ variant = "hw" /\ CanCall
    /\ calls' = calls + 1
    /\ LET o == Called("connect")
           h == dev.next
       IN  IF ~serialOk
           THEN \* serial.Serial raised: self.arduino keeps its old value
                /\ hw' = [hw EXCEPT !.arduino = CloseArduinoIfOpen(hw.arduino)]
                /\ dev' = dev
                /\ obs' = [o EXCEPT !.res = "false"]
           ELSE IF ~openOk
           THEN \* hdwf.value == 0: self.arduino.close(); return False
                /\ hw' = [hw EXCEPT !.arduino = "closed", !.hdwf = 0]
                /\ dev' = dev
                /\ obs' = [o EXCEPT !.res = "false", !.io = TRUE]
           ELSE IF ~setupOk
           THEN \* the setup raised: the arduino is closed, the handle is kept
                /\ hw' = [hw EXCEPT !.arduino = "closed", !.hdwf = h]
                /\ dev' = [dev EXCEPT !.open = dev.open \cup {h}, !.next = h + 1]
                /\ obs' = [o EXCEPT !.res = "false", !.io = TRUE]
           ELSE /\ hw' = [hw EXCEPT !.arduino = "open", !.hdwf = h, !.connected = TRUE]
                /\ dev' = [dev EXCEPT !.open = dev.open \cup {h}, !.next = h + 1]
                /\ obs' = [o EXCEPT !.res = "true", !.io = TRUE]
    /\ UNCHANGED <<variant, mon, clf, disk, pc, sim, cl, gui, thr, conn, srv>>

\* AD3OnlySource.connect
Ad3Connect(openOk, setupOk) ==
    /\ IsAd3 /\ CanCall
    /\ calls' = calls + 1
    /\ LET o == Called("connect")
           h == dev.next
       IN  IF ~openOk
           THEN /\ hw' = [hw EXCEPT !.hdwf = 0]
                /\ dev' = dev
                /\ obs' = [o EXCEPT !.res = "false", !.io = TRUE]
           ELSE IF ~setupOk
           THEN /\ hw' = [hw EXCEPT !.hdwf = h]
                /\ dev' = [dev EXCEPT !.open = dev.open \cup {h}, !.next = h + 1]
                /\ obs' = [o EXCEPT !.res = "false", !.io = TRUE]
           ELSE /\ hw' = [hw EXCEPT !.hdwf = h, !.connected = TRUE]
                /\ dev' = [dev EXCEPT !.open = dev.open \cup {h}, !.next = h + 1]
                /\ obs' = [o EXCEPT !.res = "true", !.io = TRUE]
    /\ UNCHANGED <<variant, mon, clf, disk, pc, sim, cl, gui, thr, conn, srv>>

\* disconnect of both hardware sources: the serial port is closed only
\* while open; FDwfDeviceClose is called whenever hdwf.value != 0, and
\* hdwf is never reset.
HwDisconnect ==
    /\ HasDevice /\ CanCall
    /\ calls' = calls + 1
    /\ hw' = [hw EXCEPT !.arduino = CloseArduinoIfOpen(hw.arduino),
                        !.connected = FALSE]
    /\ dev' = [dev EXCEPT !.open = IF hw.hdwf # 0 THEN dev.open \ {hw.hdwf}
                                   ELSE dev.open]
    /\ obs' = [Called("disconnect") EXCEPT
                     !.res = "ok",
                     !.io = (hw.hdwf # 0) \/ (hw.arduino = "open"),
                     !.reclose = (hw.hdwf # 0) /\ (hw.hdwf \notin dev.open)]
    /\ UNCHANGED <<variant, mon, clf, disk, pc, sim, cl, gui, thr, conn, srv>>

HwSetGroundTruth(p) ==
    /\ IsHw /\ CanCall
    /\ p = InputOf(calls + 1)
    /\ calls' = calls + 1
    /\ obs' = [Called("set") EXCEPT !.res = "ok"]
    /\ UNCHANGED <<variant, mon, clf, disk, pc, sim, hw, dev, cl, gui, thr, conn, srv>>

HwGetGroundTruth ==
    /\ IsHw /\ CanCall
    /\ calls' = calls + 1
    /\ obs' = [Called("get") EXCEPT !.res = "null"]
    /\ UNCHANGED <<variant, mon, clf, disk, pc, sim, hw, dev, cl, gui, thr, conn, srv>>

\* Number of pairs one measure_impedance_vector call measures.
PairsOf == IF variant = "hw" THEN N_PAIRS ELSE 1

\* A measure_impedance_vector without its guard.
NeverRefused == FALSE

\* The guard at the top of measure_impedance_vector.
HwMeasureRefused == ~hw.connected

\* measure_impedance_vector up to the first status poll: the guard, then
\* (multiplexed source) the pair-select command, then Configure(1).
HwMeasure ==
    /\ IsHw /\ CanCall
    /\ calls' = calls + 1
    /\ LET o == Called("measure")
       IN  IF HwMeasureRefused
           THEN /\ obs' = [o EXCEPT !.res = "notconn"]
                /\ pc' = pc
           ELSE IF variant = "hw" /\ hw.arduino # "open"
           THEN \* _select_pair: write on a closed or missing serial port
                /\ obs' = [o EXCEPT !.res = "raised", !.io = TRUE]
                /\ pc' = pc
           ELSE /\ obs' = [o EXCEPT !.io = TRUE]
                /\ pc' = [IdlePc EXCEPT !.at = "poll", !.pair = 1]
    /\ UNCHANGED <<variant, mon, clf, disk, sim, hw, dev, cl, gui, thr, conn, srv>>

\* Does the polling loop give up after `n` unsuccessful polls?
\*   AD3OnlySource: timeout_count += 1; if timeout_count > 500: raise
\*   RealHardwareSource: while True with no counter
PollGivesUp(n) == variant = "ad3" /\ n > TIMEOUT_POLLS

\* One FDwfAnalogImpedanceStatus poll of _measure_single_impedance.
HwPoll(done) ==
    /\ IsHw /\ pc.at = "poll"
    /\ IF done
       THEN IF pc.pair < PairsOf
            THEN \* next pair: select, Configure(1), poll again
                 /\ pc' = [pc EXCEPT !.pair = @ + 1, !.polls = 0]
                 /\ obs' = obs
            ELSE /\ pc' = IdlePc
                 /\ obs' = [obs EXCEPT !.res = "ok"]
       ELSE /\ pc.polls < MaxPolls
            /\ IF PollGivesUp(pc.polls + 1)
               THEN /\ pc' = IdlePc
                    /\ obs' = [obs EXCEPT !.res = "timeout"]
               ELSE /\ pc' = [pc EXCEPT !.polls = @ + 1]
                    /\ obs' = obs
    /\ UNCHANGED <<variant, mon, clf, disk, calls, sim, hw, dev, cl, gui, thr, conn, srv>>

----------------------------------------------------------------------------
(* AD3OnlySource: frequency sweep and spectral features.  A reading of the *)
(* analyzer is a pair (resistance, reactance) of integers; frequencies are *)
(* log-spaced, so the frequency of point i of n is given by the fraction   *)
(* i/(n-1) of the way from start to stop on the logarithmic axis; a phase  *)
(* arctan2(x, r) is given by the direction of (r, x).                     *)

SweepSizes == 1..MaxPoints
\* What the analyzer reports for point i: the impedance at that frequency
\* once the measurement is done, and a left-over value when it is read
\* before it is done.
DoneReading(i) == IF i % 2 = 1 THEN [r |-> 3, x |-> 4] ELSE [r |-> 4, x |-> -3]
StaleReading == [r |-> 0, x |-> -2]
\* Unsuccessful status polls of one point before the analyzer is done
SweepPolls == {0, SWEEP_TIMEOUT_POLLS, SWEEP_TIMEOUT_POLLS + 1}

\* np.logspace(log10(start), log10(stop), n)[i], i counted from 0
LogSpaced(i, n) == IF n = 1 THEN RZero ELSE Rat(i, n - 1)
\* np.sqrt(r ** 2 + x ** 2)
Magnitude(rd) ==
    CHOOSE m \in 0..(Abs(rd.r) + Abs(rd.x)) : m * m = rd.r * rd.r + rd.x * rd.x
\* np.arctan2(x, r)
Phase(rd) ==
    LET g == Gcd(Abs(rd.r), Abs(rd.x))
    IN  IF g = 0 THEN <<0, 0>> ELSE <<rd.r \div g, rd.x \div g>>

\* freqs = np.logspace(...); the four other arrays = np.zeros(num_points)
ZeroSweep(n) ==
    [set |-> TRUE,
     frequencies |-> [i \in 1..n |-> LogSpaced(i - 1, n)],
     magnitude |-> [i \in 1..n |-> 0],
     phase |-> [i \in 1..n |-> <<0, 0>>],
     resistance |-> [i \in 1..n |-> 0],
     reactance |-> [i \in 1..n |-> 0],
     how |-> [i \in 1..n |-> "none"],
     stored |-> [i \in 1..n |-> FALSE]]

\* The polling loop of one sweep point: `timeout_count > 200` logs a
\* warning and leaves the loop.
SweepTimesOut(failed) == failed > SWEEP_TIMEOUT_POLLS

ReadingAt(i, timedOut) == IF timedOut THEN StaleReading ELSE DoneReading(i)

\* Whether the point's values are read and stored: the two
\* FDwfAnalogImpedanceStatusMeasure calls and the four assignments follow
\* the polling loop unconditionally.
StoresReading(timedOut) == TRUE

\* resistances[i] = r.value; reactances[i] = x.value; magnitudes[i] = ...
StorePoint(sw, i, rd, timedOut) ==
    LET polled == [sw EXCEPT !.how[i] = IF timedOut THEN "timeout" ELSE "done"]
    IN  IF ~StoresReading(timedOut) THEN polled
        ELSE [polled EXCEPT !.resistance[i] = rd.r,
                            !.reactance[i] = rd.x,
                            !.magnitude[i] = Magnitude(rd),
                            !.phase[i] = Phase(rd),
                            !.stored[i] = TRUE]

\* sweep_impedance(num_points=n) up to the first point
Ad3Sweep(n) ==
    /\ variant = "ad3_sweep" /\ CanCall
    /\ calls' = calls + 1
    /\ LET o == Called("sweep")
       IN  IF ~hw.connected
           THEN /\ obs' = [o EXCEPT !.res = "notconn"]
                /\ pc' = pc
           ELSE /\ obs' = [o EXCEPT !.io = TRUE]
                /\ pc' = [IdlePc EXCEPT !.at = "sweep", !.pair = 1,
                                        !.sw = ZeroSweep(n)]
    /\ UNCHANGED <<variant, mon, clf, disk, sim, hw, dev, cl, gui, thr, conn, srv>>

\* One pass of the for-loop of sweep_impedance: the point is polled
\* (`failed` polls find the analyzer not done), then read; after the last
\* point the result is stored in _last_sweep and returned.
Ad3SweepPoint(failed) ==
    /\ variant = "ad3_sweep" /\ pc.at = "sweep"
    /\ LET timedOut == SweepTimesOut(failed)
           sw == StorePoint(pc.sw, pc.pair, ReadingAt(pc.pair, timedOut), timedOut)
       IN  IF pc.pair < Len(pc.sw.frequencies)
           THEN /\ pc' = [pc EXCEPT !.pair = @ + 1, !.sw = sw]
                /\ UNCHANGED <<obs, hw>>
           ELSE /\ pc' = IdlePc
                /\ hw' = [hw EXCEPT !.last_sweep = sw]
                /\ obs' = [obs EXCEPT !.res = "ok"]
    /\ UNCHANGED <<variant, mon, clf, disk, calls, sim, dev, cl, gui, thr, conn, srv>>

\* Positions 0..n-1 a Python slice(a, b) selects in an array of length n
Slice(a, b, n) == {i \in 0..(n - 1) : a <= i /\ i < b}

\* A high band of the same size as the other two.
HighEqual(n) == Slice(2 * (n \div 3), 3 * (n \div 3), n)

\* n3 = n // 3; low, mid, high = slice(0, n3), slice(n3, 2*n3), slice(2*n3, n)
Low(n) == Slice(0, n \div 3, n)
Mid(n) == Slice(n \div 3, 2 * (n \div 3), n)
High(n) == Slice(2 * (n \div 3), n, n)

RECURSIVE SumAt(_, _)
SumAt(arr, S) ==
    IF S = {} THEN 0
    ELSE LET i == CHOOSE j \in S : TRUE
         IN  arr[i + 1] + SumAt(arr, S \ {i})

\* float(np.mean(arr[band])): the mean of an empty slice is nan (<<0, 0>>)
MeanAt(arr, S) ==
    IF S = {} THEN <<0, 0>> ELSE Rat(SumAt(arr, S), Cardinality(S))

\* int(np.argmax(np.abs(reactance))): the first index of the largest |X|
ArgMaxAbs(arr) ==
    CHOOSE i \in 0..(Len(arr) - 1) :
        /\ \A j \in 0..(Len(arr) - 1) : Abs(arr[j + 1]) <= Abs(arr[i + 1])
        /\ \A j \in 0..(i - 1) : Abs(arr[j + 1]) < Abs(arr[i + 1])

\* find_x_peak
FindXPeak(sw) ==
    LET k == ArgMaxAbs(sw.reactance)
    IN  [peak_freq |-> sw.frequencies[k + 1],
         peak_reactance |-> sw.reactance[k + 1],
         peak_magnitude |-> sw.magnitude[k + 1],
         peak_phase |-> sw.phase[k + 1],
         peak_index |-> k]

\* np.polyfit(log_freqs, reactance, 1)[0]: the least-squares slope, in
\* units of the spacing of the log-frequencies; a single point leaves the
\* fit rank-deficient (<<0, 0>>).
XSlope(sw) ==
    LET n == Len(sw.reactance)
        I == 0..(n - 1)
        si == SumAt([i \in 1..n |-> i - 1], I)
        sii == SumAt([i \in 1..n |-> (i - 1) * (i - 1)], I)
        sx == SumAt(sw.reactance, I)
        six == SumAt([i \in 1..n |-> (i - 1) * sw.reactance[i]], I)
    IN  IF n * sii - si * si = 0 THEN <<0, 0>>
        ELSE Rat(n * six - si * sx, n * sii - si * si)

\* The dict extract_sweep_features builds
ExtractSweepFeatures(sw) ==
    LET n == Len(sw.frequencies)
        peak == FindXPeak(sw)
    IN  [peak_freq |-> peak.peak_freq,
         peak_magnitude |-> <<peak.peak_magnitude, 1>>,
         peak_phase |-> peak.peak_phase,
         peak_reactance |-> <<peak.peak_reactance, 1>>,
         z_mean_low |-> MeanAt(sw.magnitude, Low(n)),
         z_mean_mid |-> MeanAt(sw.magnitude, Mid(n)),
         z_mean_high |-> MeanAt(sw.magnitude, High(n)),
         x_mean_low |-> MeanAt(sw.reactance, Low(n)),
         x_mean_mid |-> MeanAt(sw.reactance, Mid(n)),
         x_mean_high |-> MeanAt(sw.reactance, High(n)),
         x_slope |-> XSlope(sw)]

\* extract_sweep_features(): on the most recent sweep; needs no connection
Ad3ExtractSweepFeatures ==
    /\ variant = "ad3_sweep" /\ CanCall
    /\ calls' = calls + 1
    /\ LET o == Called("extract")
           sw == hw.last_sweep
           n == Len(sw.frequencies)
       IN  IF ~sw.set
           THEN obs' = [o EXCEPT !.res = "no_sweep"]
           ELSE obs' = [o EXCEPT
                          !.res = "ok",
                          !.out = [fields |-> ExtractSweepFeatures(sw),
                                   n |-> n, low |-> Low(n), mid |-> Mid(n),
                                   high |-> High(n)]]
    /\ UNCHANGED <<variant, mon, clf, disk, pc, sim, hw, dev, cl, gui, thr, conn, srv>>

----------------------------------------------------------------------------
(* Wire messages (JSON objects of the protocol).  `n` is client_count.     *)
(* `ver` is the number of set_touch messages the server had applied when   *)
(* it built the message; it is not on the wire and only orders positions.  *)

Msg(type, x, y, id, n, ver) ==
    [type |-> type, x |-> x, y |-> y, id |-> id, n |-> n, ver |-> ver]

ThreadIds == 1..Len(thr)
GuiThread == 1

NewConn == [st |-> "syn", c2s |-> <<>>, s2c |-> <<>>, owed |-> 0]
NoUpdate == [pos |-> DefaultPos, ver |-> -1]
NewThread(o) == [owner |-> o, st |-> "connecting", tasks |-> <<>>, upd |-> NoUpdate]
NewClient ==
    [connected |-> FALSE, loop |-> 0, websocket |-> 0, thread |-> 0,
     queue |-> <<>>, latest |-> DefaultPos, asked |-> FALSE, sid |-> 0]
NewGui ==
    [connected |-> FALSE, websocket |-> 0, touch |-> DefaultPos, count |-> 0]

----------------------------------------------------------------------------
(* HILSServer (src/src/hils/server.py).  The server's event loop is idle   *)
(* whenever no handler is suspended, so a message written to an open       *)
(* socket is handled in the step that writes it unless the handler of that *)
(* socket is suspended in asyncio.gather; then it waits in c2s.  What the  *)
(* server sends travels back asynchronously (s2c).                         *)

\* websocket.send on the server side: a closed connection raises
\* ConnectionClosed, which every caller swallows.
SrvSend(cn, k, m) ==
    IF cn[k].st = "open" THEN [cn EXCEPT ![k].s2c = Append(@, m)] ELSE cn

\* send_state_update / broadcast_state: the state_update envelope.
StateUpdate(touch, clients, ver) ==
    Msg("state_update", touch[1], touch[2], 0, Cardinality(clients), ver)

\* The network and the server together: what a server step changes.
World(cn, sv) == [conn |-> cn, srv |-> sv]

\* handle_client up to its message loop, run when the handshake of
\* connection k completes: register, send the initial state.
Accept(w, k) ==
    LET sv == [w.srv EXCEPT !.clients = @ \cup {k}]
    IN  World([w.conn EXCEPT
                  ![k].st = "open",
                  ![k].s2c = Append(@, StateUpdate(sv.touch, sv.clients, sv.ver))],
              sv)

\* A handler that awaits asyncio.gather of its broadcast is suspended.
Awaiting(sv, k) == \E i \in 1..Len(sv.tasks) : sv.tasks[i].by = k

\* A coordinate key that is absent from the JSON object.
Missing == -1
\* A coordinate that is a JSON string such as "abc", or null
NotNumber == -2
\* A coordinate that is the JSON value true
JsonTrue == -3

\* float(v) raises ValueError or TypeError
FloatRaises(v) == v = NotNumber

\* float(data.get("x", 50.0)); float(True) is 1.0
CoordOf(v) ==
    IF v = Missing THEN DefaultCoord ELSE IF v = JsonTrue THEN 1 ELSE v

\* Text that json.loads rejects, and a type no branch of handle_message
\* knows
NotJson == "not_json"
UnknownType == "reset"

\* The messages the protocol does not define: no JSON, an unknown type, a
\* set_touch without two numeric coordinates.
Malformed(m) ==
    \/ m.type \in {NotJson, UnknownType}
    \/ /\ m.type = "set_touch"
       /\ {m.x, m.y} \cap {Missing, NotNumber, JsonTrue} # {}

\* srv.bad counts the malformed messages handled so far.
Counted(sv, m) == IF Malformed(m) THEN [sv EXCEPT !.bad = @ + 1] ELSE sv

\* A broadcast that leaves out the client whose message caused it.
AllButSender(sv, sender) == sv.clients \ {sender}

\* broadcast_state: the clients one broadcast is sent to.
BroadcastTargets(sv, sender) == sv.clients

\* set_touch_position: the position stored for a set_touch message.
NewTouch(m) == <<CoordOf(m.x), CoordOf(m.y)>>

\* A broadcast built from the state before the set_touch was stored.
StaleMsg(sv) == StateUpdate(DefaultPos, sv.clients, 0)

\* broadcast_state: the envelope is built once, from the state just stored.
BroadcastMsg(sv) == StateUpdate(sv.touch, sv.clients, sv.ver)

\* A response computed from the position the server started with.
InitialTouch(sv) == DefaultPos

\* The position an impedance_response is computed from and reports.
MeasuredTouch(sv) == sv.touch

\* handle_message(websocket k, message m).  A set_touch stores the
\* position and hands one send per registered client to asyncio.gather;
\* the other requests are answered on k alone.  What json.loads or float
\* raises and an unknown type are logged, nothing else.
HandleMessage(w, k, m) ==
    LET cn == w.conn
        sv == w.srv
    IN  CASE m.type = "set_touch" /\ (FloatRaises(m.x) \/ FloatRaises(m.y)) ->
               World(cn, Counted(sv, m))
          [] m.type = "set_touch" /\ ~(FloatRaises(m.x) \/ FloatRaises(m.y)) ->
               LET nv == [Counted(sv, m) EXCEPT
                             !.touch = NewTouch(m), !.ver = @ + 1,
                             !.applied[m.id] = sv.ver + 1]
                   to == BroadcastTargets(nv, k)
               IN  World([j \in DOMAIN cn |->
                             IF j \in sv.clients
                             THEN [cn[j] EXCEPT !.owed = nv.ver] ELSE cn[j]],
                         [nv EXCEPT !.tasks =
                             IF to = {} THEN @
                             ELSE Append(@, [to |-> to, by |-> k,
                                             msg |-> BroadcastMsg(nv)])])
          [] m.type = "measure_impedance" ->
               World(SrvSend(cn, k,
                        Msg("impedance_response", MeasuredTouch(sv)[1],
                            MeasuredTouch(sv)[2], m.id, 0, sv.ver)),
                     [sv EXCEPT !.meas = [id |-> m.id, by |-> k]])
          [] m.type = "get_state" ->
               World(SrvSend(cn, k, StateUpdate(sv.touch, sv.clients, sv.ver)), sv)
          [] m.type = "connect" ->
               World(SrvSend(cn, k, Msg("connected", 0, 0, 0, 0, sv.ver)), sv)
          [] OTHER -> World(cn, Counted(sv, m))

\* The handler of connection k is waiting in `async for`: a message that
\* arrives is handled at once.
HandlerIdle(w, k) ==
    /\ k \in w.srv.clients
    /\ ~Awaiting(w.srv, k)
    /\ w.conn[k].c2s = <<>>

\* A message written to the open socket k reaches the server.
Deliver(w, k, m) ==
    IF HandlerIdle(w, k) THEN HandleMessage(w, k, m)
    ELSE World([w.conn EXCEPT ![k].c2s = Append(@, m)], w.srv)

\* The handler of connection k, resumed after its broadcast, takes the
\* next message that arrived meanwhile.
ServerHandle(k) ==
    /\ IsNet /\ k \in srv.clients
    /\ ~Awaiting(srv, k)
    /\ conn[k].c2s # <<>>
    /\ LET w == HandleMessage(World([conn EXCEPT ![k].c2s = Tail(@)], srv),
                              k, Head(conn[k].c2s))
       IN  conn' = w.conn /\ srv' = w.srv
    /\ UNCHANGED <<variant, mon, clf, disk, calls, pc, obs, sim, hw, dev, cl, gui, thr>>

RECURSIVE SendAll(_, _, _)
SendAll(cn, to, m) ==
    IF to = {} THEN cn
    ELSE LET k == CHOOSE j \in to : TRUE
         IN  SendAll(SrvSend(cn, k, m), to \ {k}, m)

\* The send tasks of the oldest pending asyncio.gather run (they were
\* queued back to back, so nothing runs between them).
ServerBroadcastRun ==
    /\ IsNet
    /\ srv.tasks # <<>>
    /\ conn' = SendAll(conn, Head(srv.tasks).to, Head(srv.tasks).msg)
    /\ srv' = [srv EXCEPT !.tasks = Tail(@)]
    /\ UNCHANGED <<variant, mon, clf, disk, calls, pc, obs, sim, hw, dev, cl, gui, thr>>

\* handle_client's finally: the message loop ended with the connection.
ServerHandlerExit(k) ==
    /\ IsNet /\ k \in srv.clients
    /\ conn[k].st = "closed"
    /\ conn[k].c2s = <<>>
    /\ ~Awaiting(srv, k)
    /\ srv' = [srv EXCEPT !.clients = @ \ {k}]
    /\ UNCHANGED <<variant, mon, clf, disk, calls, pc, obs, sim, hw, dev, cl, gui, thr, conn>>

\* The server process stops.  Ctrl+C (clean) leaves `async with
\* websockets.serve` and every open connection gets a close frame; a
\* killed process or a lost network path ends them without one.  The
\* server's state goes with the process.  (The stop is one of the MaxCalls
\* events a behaviour is driven by.)
ServerStop(clean) ==
    /\ variant = "net_stop"
    /\ srv.up /\ GuiSettled
    /\ calls < MaxCalls
    /\ calls' = calls + 1
    /\ srv' = [srv EXCEPT !.up = FALSE, !.clients = {}, !.tasks = <<>>]
    /\ conn' = [k \in DOMAIN conn |->
                  IF conn[k].st = "open"
                  THEN [conn[k] EXCEPT !.st = IF clean THEN "closed" ELSE "lost",
                                       !.c2s = <<>>]
                  ELSE conn[k]]
    /\ UNCHANGED <<variant, mon, clf, disk, pc, obs, sim, hw, dev, cl, gui, thr>>

----------------------------------------------------------------------------
(* A hand-written peer: a WebSocket client that is neither of the two      *)
(* programs of the repository.                                             *)

RawPeer == 2

\* What the peer writes as its n-th message.
RawMessages(n) ==
    {Msg(NotJson, 0, 0, n, 0, 0),
     Msg(UnknownType, 0, 0, n, 0, 0),
     Msg("set_touch", Missing, InputOf(n)[2], n, 0, 0),
     Msg("set_touch", NotNumber, InputOf(n)[2], n, 0, 0),
     Msg("set_touch", JsonTrue, InputOf(n)[2], n, 0, 0)}

\* The peer writes m to its open socket.
RawSend(m) ==
    /\ variant = "net_raw"
    /\ calls < MaxCalls
    /\ GuiSettled
    /\ thr[RawPeer].st = "open" /\ conn[RawPeer].st = "open"
    /\ m \in RawMessages(calls + 1)
    /\ calls' = calls + 1
    /\ LET w == Deliver(World(conn, srv), RawPeer, m)
       IN  conn' = w.conn /\ srv' = w.srv
    /\ UNCHANGED <<variant, mon, clf, disk, pc, obs, sim, hw, dev, cl, gui, thr>>

----------------------------------------------------------------------------
(* The background threads of HILSClientSource (src/hils_client.py) and of  *)
(* HILSGUIApp (src/hils_gui.py)                                        *)

\* websockets.connect raised (server unreachable).  HILSClientSource: the
\* except branch of _connect_to_server clears _connected and
\* _run_event_loop closes the loop.  HILSGUIApp: only the status label.
ThreadConnectFail(t) ==
    /\ IsNet /\ t \in ThreadIds
    /\ thr[t].st = "connecting"
    /\ conn[t].st = "syn"
    /\ thr' = [thr EXCEPT ![t].st = "ended", ![t].tasks = <<>>]
    /\ cl' = IF thr[t].owner = "app" THEN [cl EXCEPT !.connected = FALSE] ELSE cl
    /\ conn' = [conn EXCEPT ![t].st = "failed"]
    /\ UNCHANGED <<variant, mon, clf, disk, calls, pc, obs, sim, hw, dev, gui, srv>>

\* The handshake completes: the server's handle_client starts (Accept),
\* websockets.connect returns, and the thread sets self.websocket and the
\* connected flag; HILSClientSource then sends its connect message.
ThreadConnected(t) ==
    /\ IsNet /\ t \in ThreadIds
    /\ thr[t].st = "connecting"
    /\ conn[t].st = "syn"
    /\ srv.up
    /\ thr' = [thr EXCEPT ![t].st = "open"]
    /\ LET w == Accept(World(conn, srv), t)
           v == IF thr[t].owner = "app"
                THEN Deliver(w, t, Msg("connect", 0, 0, 0, 0, 0)) ELSE w
       IN  conn' = v.conn /\ srv' = v.srv
    /\ cl' = IF thr[t].owner = "app"
             THEN [cl EXCEPT !.websocket = t, !.connected = TRUE] ELSE cl
    /\ gui' = IF thr[t].owner = "gui"
              THEN [gui EXCEPT !.websocket = t, !.connected = TRUE] ELSE gui
    /\ UNCHANGED <<variant, mon, clf, disk, calls, pc, obs, sim, hw, dev>>

\* _handle_message for the next message of the socket.
ThreadRecv(t) ==
    /\ IsNet /\ t \in ThreadIds
    /\ thr[t].st = "open"
    /\ conn[t].s2c # <<>>
    /\ LET m == Head(conn[t].s2c)
       IN  /\ conn' = [conn EXCEPT
                  ![t].s2c = Tail(@),
                  ![t].owed = IF m.type = "state_update" /\ m.ver >= @ THEN 0 ELSE @]
           /\ thr' = IF m.type = "state_update"
                     THEN [thr EXCEPT ![t].upd = [pos |-> <<m.x, m.y>>, ver |-> m.ver]]
                     ELSE thr
           /\ IF thr[t].owner = "app"
              THEN /\ cl' = CASE m.type = "impedance_response" ->
                                  [cl EXCEPT !.queue = Append(@, m)]
                              [] m.type = "state_update" ->
                                  [cl EXCEPT !.latest = <<m.x, m.y>>]
                              [] OTHER -> cl
                   /\ gui' = gui
              ELSE /\ gui' = IF m.type = "state_update" /\ thr[t].owner = "gui"
                             THEN [gui EXCEPT !.count = m.n]
                             ELSE gui
                   /\ cl' = cl
    /\ UNCHANGED <<variant, mon, clf, disk, calls, pc, obs, sim, hw, dev, srv>>

\* The effect of one coroutine handed to a loop: a send (_send_set_touch,
\* _send_measure_request, _send_get_state_request, _send_touch_to_server)
\* writes to the socket self.websocket names when the coroutine runs,
\* close() ends the socket the caller named.  A socket that is missing or
\* no longer open makes the coroutine raise into a future nobody reads.
RunTask(w, task, ws) ==
    IF ws = 0 \/ w.conn[ws].st # "open" THEN w
    ELSE IF task.kind = "close"
    THEN World([w.conn EXCEPT ![ws].st = "closed"], w.srv)
    ELSE Deliver(w, ws, task.msg)

SocketOf(o, task) ==
    IF task.kind = "close" THEN task.ws
    ELSE IF o = "app" THEN cl.websocket ELSE gui.websocket

\* A coroutine queued on a loop runs.  A socket that belongs to another
\* thread's loop is used without synchronisation, so the write may be lost.
ThreadRunTask(t, ok) ==
    /\ IsNet /\ t \in ThreadIds
    /\ thr[t].st \in {"connecting", "open"}
    /\ thr[t].tasks # <<>>
    /\ LET task == Head(thr[t].tasks)
           ws == SocketOf(thr[t].owner, task)
           w == IF ok THEN RunTask(World(conn, srv), task, ws) ELSE World(conn, srv)
       IN  /\ (ws = 0 \/ ws = t) => ok
           /\ conn' = w.conn /\ srv' = w.srv
    /\ thr' = [thr EXCEPT ![t].tasks = Tail(@)]
    /\ UNCHANGED <<variant, mon, clf, disk, calls, pc, obs, sim, hw, dev, cl, gui>>

\* The socket closed cleanly: `async for` ends without an exception,
\* _connect_to_server returns and _run_event_loop closes the loop; what
\* was queued on the loop or still on its way to the socket is dropped.
ThreadConnClosed(t) ==
    /\ IsNet /\ t \in ThreadIds
    /\ thr[t].st = "open"
    /\ conn[t].st = "closed"
    /\ thr' = [thr EXCEPT ![t].st = "ended", ![t].tasks = <<>>]
    /\ conn' = [conn EXCEPT ![t].s2c = <<>>]
    /\ UNCHANGED <<variant, mon, clf, disk, calls, pc, obs, sim, hw, dev, cl, gui, srv>>

\* The socket ended without a close frame: `async for` raises
\* ConnectionClosedError.  HILSClientSource: the except branch of
\* _connect_to_server clears _connected and _run_event_loop closes the
\* loop.  HILSGUIApp: only the status label.
ThreadConnLost(t) ==
    /\ IsNet /\ t \in ThreadIds
    /\ thr[t].st = "open"
    /\ conn[t].st = "lost"
    /\ thr' = [thr EXCEPT ![t].st = "ended", ![t].tasks = <<>>]
    /\ conn' = [conn EXCEPT ![t].s2c = <<>>]
    /\ cl' = IF thr[t].owner = "app" THEN [cl EXCEPT !.connected = FALSE] ELSE cl
    /\ UNCHANGED <<variant, mon, clf, disk, calls, pc, obs, sim, hw, dev, gui, srv>>

\* The loop `l` is idle in its receive loop on the very socket the
\* coroutine will use: the coroutine then runs as soon as it is handed
\* over, before the caller or anyone else takes another step.
RunsAtOnce(l, task) ==
    /\ thr[l].st = "open"
    /\ thr[l].tasks = <<>>
    /\ SocketOf(thr[l].owner, task) = l

\* asyncio.run_coroutine_threadsafe(coro, loop) on a loop that is not closed
Schedule(l, task) ==
    LET w == IF RunsAtOnce(l, task)
             THEN RunTask(World(conn, srv), task, SocketOf(thr[l].owner, task))
             ELSE World(conn, srv)
    IN  /\ thr' = IF RunsAtOnce(l, task) \/ thr[l].st = "ended" THEN thr
                  ELSE [thr EXCEPT ![l].tasks = Append(@, task)]
        /\ conn' = w.conn
        /\ srv' = w.srv

SendTask(m) == [kind |-> "send", ws |-> 0, msg |-> m]

----------------------------------------------------------------------------
(* HILSGUIApp: the Tk thread *)

\* _on_canvas_click -> _set_touch_position: the display position, then the
\* set_touch message when connected (the GUI never closes its loop).
GuiClick(p) ==
    /\ variant = "net"
    /\ calls < MaxCalls
    /\ GuiSettled
    /\ p = InputOf(calls + 1)
    /\ calls' = calls + 1
    /\ gui' = [gui EXCEPT !.touch = p]
    /\ IF gui.connected /\ gui.websocket # 0
       THEN Schedule(GuiThread, SendTask(Msg("set_touch", p[1], p[2], calls + 1, 0, 0)))
       ELSE UNCHANGED <<thr, conn, srv>>
    /\ UNCHANGED <<variant, mon, clf, disk, pc, obs, sim, hw, dev, cl>>

----------------------------------------------------------------------------
(* HILSClientSource: the calling thread *)

\* asyncio.run_coroutine_threadsafe(coro, self.loop) raises RuntimeError
\* once the loop is closed.
LoopClosed == thr[cl.loop].st = "ended"

\* `if not self._connected or not self.loop`
NotReady == ~cl.connected \/ cl.loop = 0

\* connect: start the thread, which sets self.loop to its new event loop
\* and starts the handshake of websockets.connect (_run_event_loop); then
\* wait for self._connected.
NetConnect ==
    /\ HasClient /\ CanCall
    /\ calls' = calls + 1
    /\ thr' = Append(thr, NewThread("app"))
    /\ conn' = Append(conn, NewConn)
    /\ cl' = [cl EXCEPT !.thread = Len(thr) + 1, !.loop = Len(thr) + 1]
    /\ pc' = [pc EXCEPT !.at = "connect_wait"]
    /\ obs' = Called("connect")
    /\ UNCHANGED <<variant, mon, clf, disk, sim, hw, dev, gui, srv>>

\* The wait loop of connect ends: True once _connected is seen, False when
\* the 5 s are over.
NetConnectReturn ==
    /\ HasClient
    /\ pc.at = "connect_wait"
    /\ pc' = IdlePc
    /\ obs' = [obs EXCEPT !.res = IF cl.connected THEN "true" ELSE "false"]
    /\ UNCHANGED <<variant, mon, clf, disk, calls, sim, hw, dev, cl, gui, thr, conn, srv>>

NetDisconnect ==
    /\ variant = "net" /\ CanCall
    /\ calls' = calls + 1
    /\ cl' = [cl EXCEPT !.connected = FALSE]
    /\ LET o == Called("disconnect")
       IN  IF cl.websocket = 0 \/ cl.loop = 0
           THEN /\ UNCHANGED <<thr, conn, srv>>
                /\ obs' = [o EXCEPT !.res = "ok"]
           ELSE IF LoopClosed
           THEN /\ UNCHANGED <<thr, conn, srv>>
                /\ obs' = [o EXCEPT !.res = "raised"]
           ELSE /\ Schedule(cl.loop, [kind |-> "close", ws |-> cl.websocket,
                                      msg |-> Msg("close", 0, 0, 0, 0, 0)])
                /\ obs' = [o EXCEPT !.res = "ok", !.io = TRUE,
                                    !.reclose = obs.op = "disconnect"]
    /\ UNCHANGED <<variant, mon, clf, disk, pc, sim, hw, dev, gui>>

NetSetGroundTruth(p) ==
    /\ variant = "net" /\ CanCall
    /\ p = InputOf(calls + 1)
    /\ calls' = calls + 1
    /\ LET o == Called("set")
       IN  IF NotReady
           THEN /\ UNCHANGED <<thr, conn, srv>>
                /\ obs' = [o EXCEPT !.res = "ok"]
           ELSE IF LoopClosed
           THEN /\ UNCHANGED <<thr, conn, srv>>
                /\ obs' = [o EXCEPT !.res = "raised"]
           ELSE /\ Schedule(cl.loop, SendTask(Msg("set_touch", p[1], p[2], calls + 1, 0, 0)))
                /\ obs' = [o EXCEPT !.res = "ok", !.io = TRUE]
    /\ cl' = [cl EXCEPT !.sid = calls + 1, !.asked = TRUE]
    /\ UNCHANGED <<variant, mon, clf, disk, pc, sim, hw, dev, gui>>

\* get_ground_truth: sends a get_state request and returns the cache at once.
NetGetGroundTruth ==
    /\ variant = "net" /\ CanCall
    /\ calls' = calls + 1
    /\ LET o == Called("get")
       IN  IF NotReady
           THEN /\ UNCHANGED <<thr, conn, srv>>
                /\ obs' = [o EXCEPT !.res = "null"]
           ELSE IF LoopClosed
           THEN /\ UNCHANGED <<thr, conn, srv>>
                /\ obs' = [o EXCEPT !.res = "raised"]
           ELSE /\ Schedule(cl.loop, SendTask(Msg("get_state", 0, 0, calls + 1, 0, 0)))
                /\ obs' = [o EXCEPT !.res = "value", !.io = TRUE, !.pos = cl.latest]
    /\ cl' = [cl EXCEPT !.asked = TRUE]
    /\ UNCHANGED <<variant, mon, clf, disk, pc, sim, hw, dev, gui>>

\* The guard at the top of measure_impedance_vector.
NetMeasureRefused == NotReady

\* measure_impedance_vector up to the first response_queue.get.
NetMeasure ==
    /\ variant = "net" /\ CanCall
    /\ calls' = calls + 1
    /\ LET o == Called("measure")
       IN  IF NetMeasureRefused
           THEN /\ UNCHANGED <<thr, conn, srv, pc>>
                /\ obs' = [o EXCEPT !.res = "notconn"]
           ELSE IF LoopClosed
           THEN /\ UNCHANGED <<thr, conn, srv, pc>>
                /\ obs' = [o EXCEPT !.res = "raised"]
           ELSE /\ Schedule(cl.loop, SendTask(Msg("measure_impedance", 0, 0, calls + 1, 0, 0)))
                /\ pc' = [IdlePc EXCEPT !.at = "m1", !.req = calls + 1]
                /\ obs' = [o EXCEPT !.io = TRUE, !.req = calls + 1]
    /\ cl' = [cl EXCEPT !.asked = TRUE]
    /\ UNCHANGED <<variant, mon, clf, disk, sim, hw, dev, gui>>

\* A reader that takes whatever response comes first.
AnyId(r, req) == TRUE

\* `result.get("request_id") == request_id`
IdMatches(r, req) == r.id = req

\* response_queue.get returned a response: the first read returns it when
\* the id matches (and caches its ground truth) and reads once more when it
\* does not; the second read returns it or raises.
NetMeasureRead ==
    /\ variant = "net"
    /\ pc.at \in {"m1", "m2"}
    /\ cl.queue # <<>>
    /\ LET r == Head(cl.queue)
           o == [obs EXCEPT !.reads = @ + 1, !.rid = r.id]
       IN  IF IdMatches(r, pc.req)
           THEN /\ cl' = [cl EXCEPT !.queue = Tail(@),
                                    !.latest = IF pc.at = "m1" THEN <<r.x, r.y>> ELSE @]
                /\ pc' = IdlePc
                /\ obs' = [o EXCEPT !.res = "ok", !.pos = <<r.x, r.y>>, !.ver = r.ver]
           ELSE /\ cl' = [cl EXCEPT !.queue = Tail(@)]
                /\ pc' = IF pc.at = "m1" THEN [pc EXCEPT !.at = "m2"] ELSE IdlePc
                /\ obs' = IF pc.at = "m1" THEN o ELSE [o EXCEPT !.res = "raised"]
    /\ UNCHANGED <<variant, mon, clf, disk, calls, sim, hw, dev, gui, thr, conn, srv>>

\* response_queue.get timed out (3 s, then 1 s): RuntimeError.
NetMeasureTimeout ==
    /\ variant = "net"
    /\ pc.at \in {"m1", "m2"}
    /\ cl.queue = <<>>
    /\ pc' = IdlePc
    /\ obs' = [obs EXCEPT !.res = "raised"]
    /\ UNCHANGED <<variant, mon, clf, disk, calls, sim, hw, dev, cl, gui, thr, conn, srv>>

----------------------------------------------------------------------------
(* Monitor loops of the GUI applications:                                  *)
(*   SingleTerminalApp  (src/src/gui/app_single_terminal.py)               *)
(*   ClassifierApp      (src/app_classifier.py)                            *)
(* Both are Tk applications: button handlers and `after` callbacks run on  *)
(* the one Tk thread, each to completion before the next begins.  A tick   *)
(* measures through the DataSource and classifies; what the DataSource and *)
(* the classifier do in a tick is the tick's outcome.  Every handler run   *)
(* counts against MaxCalls.                                                *)

IsMonitorApp == variant \in {"SingleTerminalApp", "ClassifierApp"}

\* monitoring: self.monitoring; timers: `after` callbacks not yet fired;
\* status: the status label.  acquired, pushed, errors, ticks and last are
\* history: measurements taken, classifications pushed to the display,
\* errors reported, ticks run, and what the most recent handler did.
NewMonitor ==
    [monitoring |-> FALSE, timers |-> 0, status |-> "Ready",
     acquired |-> 0, pushed |-> 0, errors |-> 0, ticks |-> 0,
     last |-> "none"]

TickOutcomes == {"ok", "measure_raises", "predict_raises"}

AlwaysRuns(m) == TRUE

\* `if not self.monitoring: return` at the top of the loop body
TickRuns(m) == m.monitoring

OnlyAfterSuccess(m, outcome) == m.monitoring /\ outcome = "ok"

\* The rescheduling at the end of the loop body, after the try/except:
\* SingleTerminalApp `if self.monitoring: self.after(...)`, ClassifierApp
\* `self.after(...)`; neither looks at how the tick went.
Reschedules(m, outcome) ==
    IF variant = "SingleTerminalApp" THEN m.monitoring ELSE TRUE

\* _monitor_loop / _monitoring_loop: one run of the loop body on record m.
MonitorLoop(m, outcome) ==
    IF ~TickRuns(m)
    THEN [m EXCEPT !.last = "skipped"]
    ELSE LET r == [m EXCEPT
                     !.ticks = @ + 1,
                     !.acquired = IF outcome = "measure_raises" THEN @ ELSE @ + 1,
                     !.pushed = IF outcome = "ok" THEN @ + 1 ELSE @,
                     !.errors = IF outcome = "ok" THEN @ ELSE @ + 1,
                     !.status = IF outcome # "ok" THEN "Error"
                                ELSE IF variant = "ClassifierApp" THEN "Predicted"
                                ELSE @,
                     !.last = outcome]
         IN  IF Reschedules(r, outcome)
             THEN [r EXCEPT !.timers = @ + 1]
             ELSE r

\* _start_monitoring: the Start button is disabled while monitoring.
MonStart(ready, connected, intervalOk) ==
    /\ IsMonitorApp /\ calls < MaxCalls
    /\ ~mon.monitoring
    /\ calls' = calls + 1
    /\ IF ~ready \/ ~connected
       THEN mon' = [mon EXCEPT !.status = "Refused", !.last = "refused"]
       ELSE IF variant = "ClassifierApp" /\ ~intervalOk
       THEN mon' = [mon EXCEPT !.status = "Refused", !.last = "refused"]
       ELSE \E outcome \in TickOutcomes :
              mon' = MonitorLoop([mon EXCEPT !.monitoring = TRUE,
                                             !.status = "Monitoring"], outcome)
    /\ UNCHANGED <<variant, clf, disk, pc, obs, sim, hw, dev, cl, gui, thr, conn, srv>>

\* _stop_monitoring: the Stop button is enabled only while monitoring.  The
\* pending `after` callback is not cancelled.
MonStop ==
    /\ IsMonitorApp /\ calls < MaxCalls
    /\ mon.monitoring
    /\ calls' = calls + 1
    /\ mon' = [mon EXCEPT !.monitoring = FALSE, !.status = "Stopped",
                          !.last = "stop"]
    /\ UNCHANGED <<variant, clf, disk, pc, obs, sim, hw, dev, cl, gui, thr, conn, srv>>

\* A pending `after` callback fires and runs the loop body.
MonTimer(outcome) ==
    /\ IsMonitorApp /\ calls < MaxCalls
    /\ mon.timers > 0
    /\ calls' = calls + 1
    /\ mon' = MonitorLoop([mon EXCEPT !.timers = @ - 1], outcome)
    /\ UNCHANGED <<variant, clf, disk, pc, obs, sim, hw, dev, cl, gui, thr, conn, srv>>

----------------------------------------------------------------------------
(* PressClassifierModel, in its two versions                               *)
(*   "press"             src/src/core/models/press_classifier.py           *)
(*       (fits the network with early stopping; has no calibration)        *)
(*   "press_standalone"                                                    *)
(*       src/single_terminal_standalone/src/core/models/press_classifier.py*)
(* and the model directory it saves to.  A feature vector is abstracted to *)
(* its dimension (2 or 10) and one integer coordinate; means and variances *)
(* are exact rationals <<numerator, denominator>>.  What predict() returns *)
(* is determined by the fitted network, the scaler applied and the feature *)
(* vector, so a prediction is recorded as exactly that triple.             *)

IsClassifier == variant \in {"press", "press_standalone"}
\* MLPClassifier(early_stopping=True, validation_fraction=0.15) in "press"
EarlyStopping == variant = "press"
HasCalibration == variant = "press_standalone"

N_CLASSES == 2          \* labels: 0 released, 1 pressed
DIM_2D == 2             \* [log10(mag+1), phase]
DIM_SWEEP == 10         \* len(SWEEP_FEATURE_KEYS)
MIN_SAMPLES == 4        \* train: if len(self._y_buf) < 4: raise
TEST_PCT == 20          \* train(test_ratio=0.2)
VALIDATION_PCT == 15    \* validation_fraction=0.15

Labels == 0..(N_CLASSES - 1)
Dims == {DIM_2D, DIM_SWEEP}
\* Released samples measure ReleasedValue, pressed samples PressedValue; a
\* calibration batch measures one of CalibValues.
ReleasedValue == 1
PressedValue == 3
CalibValues == {1, 2}
BatchSizes == {1, 3}      \* samples added by one add_samples_batch call
CalibSizes == {0, 2}      \* feature vectors passed to one calibrate call
PredictValues == {PressedValue}   \* magnitudes passed to predict
\* An empty calibration batch has no dimension and no value to choose.
CalibDims(n) == IF n = 0 THEN {DIM_2D} ELSE Dims
CalibValuesOf(n) == IF n = 0 THEN {ReleasedValue} ELSE CalibValues
ValueOf(label) == IF label = 0 THEN ReleasedValue ELSE PressedValue
FeatValues == {ReleasedValue, PressedValue} \cup CalibValues

Feat(d, v) == [dim |-> d, v |-> v]
Feats == {Feat(d, v) : d \in Dims, v \in FeatValues}

RECURSIVE SumOver(_, _)
SumOver(f, S) ==
    IF S = {} THEN 0
    ELSE LET i == CHOOSE j \in S : TRUE
         IN  f[i] + SumOver(f, S \ {i})

\* Mean of the coordinate of rows idx of buffer buf
MeanOf(buf, idx) ==
    Rat(SumOver([i \in idx |-> buf[i].f.v], idx), Cardinality(idx))
\* Population variance, as StandardScaler computes it
VarOf(buf, idx) ==
    LET n == Cardinality(idx)
        s == SumOver([i \in idx |-> buf[i].f.v], idx)
        q == SumOver([i \in idx |-> buf[i].f.v * buf[i].f.v], idx)
    IN  Rat(n * q - s * s, n * n)

NoScaler ==
    [set |-> FALSE, fitted |-> FALSE, dim |-> 0, mean |-> RZero,
     var |-> RZero, idx |-> {}]
NoModel ==
    [set |-> FALSE, fitted |-> FALSE, dim |-> 0, train |-> {}, test |-> {},
     data |-> <<>>]
NoOut == [res |-> "none", model |-> NoModel, mean |-> RZero, var |-> RZero,
          feat |-> Feat(0, 0)]
NoLast ==
    [op |-> "none", res |-> "none", out |-> NoOut, drift |-> RZero,
     sweepInput |-> FALSE, counts |-> <<0, 0>>]
NoBefore ==
    [valid |-> FALSE, shifted |-> FALSE, model |-> NoModel, scaler |-> NoScaler]

\* model, scaler, calibrated, use_sweep, buf: the instance's fields (_X_buf
\* and _y_buf are one sequence of rows [f, y]).  last: the most recent call
\* and what it returned.  before: the network and the scaler predict() was
\* using when calibrate() was last called with no calibration in force.
NewClassifier ==
    [model |-> NoModel, scaler |-> NoScaler, calibrated |-> NoScaler,
     use_sweep |-> FALSE, buf |-> <<>>, last |-> NoLast, before |-> NoBefore]

\* The four files of the model directory; by[f] is the save() that wrote
\* file f (0: a save of an earlier session); snap is the classifier state
\* held when the most recent complete save() was made.
EmptyDir ==
    [model |-> NoModel, scaler |-> NoScaler,
     meta |-> [set |-> FALSE, use_sweep |-> FALSE],
     data |-> [set |-> FALSE, buf |-> <<>>, object |-> FALSE],
     by |-> [f \in {"model", "scaler", "meta", "data"} |-> 0],
     saves |-> 0,
     snap |-> [set |-> FALSE, model |-> NoModel, scaler |-> NoScaler,
               use_sweep |-> FALSE, data |-> <<>>]]

\* _to_features: the 10-D vector is built only when the instance is in
\* sweep mode AND sweep features were passed; otherwise the 2-D vector.
ToFeatures(useSweep, sweepInput, v) ==
    IF useSweep /\ sweepInput THEN Feat(DIM_SWEEP, v) ELSE Feat(DIM_2D, v)

RECURSIVE Rows(_, _)
Rows(n, row) == IF n = 0 THEN <<>> ELSE <<row>> \o Rows(n - 1, row)

Indices(buf) == 1..Len(buf)
WithLabel(buf, y) == {i \in Indices(buf) : buf[i].y = y}
\* The content of a buffer, row by row, in one number per row: what a
\* network was fitted on, and what a save() held, are kept in this form.
RowCode(row) ==
    (IF row.f.dim = DIM_SWEEP THEN 1 ELSE 0) + 2 * row.y + 4 * row.f.v
DataOf(buf) == [i \in Indices(buf) |-> RowCode(buf[i])]
\* get_sample_counts
GetSampleCounts(buf) ==
    <<Cardinality(WithLabel(buf, 0)), Cardinality(WithLabel(buf, 1))>>
\* np.array(self._X_buf) of rows of different lengths
Ragged(buf) == \E i, j \in Indices(buf) : buf[i].f.dim # buf[j].f.dim
\* numpy >= 1.24 raises ValueError on a ragged list, older versions build an
\* array of objects; the repository does not pin a version.
NumpyBehaviours == {"raises", "object"}
\* The behaviours that can be told apart on buffer buf
Numpy(buf) == IF Ragged(buf) THEN NumpyBehaviours ELSE {"raises"}

\* The rows train() fits the scaler on: fit_transform(X) runs on the whole
\* buffer, before train_test_split picks the held-out rows `test`.
FitRows(buf, test) == Indices(buf)

FitScaler(buf, idx) ==
    [set |-> TRUE, fitted |-> TRUE, dim |-> buf[1].f.dim,
     mean |-> MeanOf(buf, idx), var |-> VarOf(buf, idx), idx |-> idx]
UnfittedScaler == [NoScaler EXCEPT !.set = TRUE]

\* train_test_split(test_size=p/100, stratify=y) holds out ceil(n*p/100) rows
HeldOut(n, pct) == (n * pct + 99) \div 100
NTest(n) == HeldOut(n, TEST_PCT)
\* StratifiedShuffleSplit raises when the held-out or the remaining part is
\* smaller than the number of classes, or a class has a single member.
CannotSplit(buf, rows, pct) ==
    \/ HeldOut(Cardinality(rows), pct) < N_CLASSES
    \/ Cardinality(rows) - HeldOut(Cardinality(rows), pct) < N_CLASSES
    \/ \E y \in Labels : Cardinality(WithLabel(buf, y) \cap rows) < 2
\* train()'s own split of the buffer
SplitFails(buf) == CannotSplit(buf, Indices(buf), TEST_PCT)
\* model.fit(X_train, y_train): with early stopping the network splits its
\* training rows once more, stratified, and raises when that cannot be done.
FitFails(buf, test) ==
    EarlyStopping /\ CannotSplit(buf, Indices(buf) \ test, VALIDATION_PCT)
\* The shuffled, stratified choice of the held-out rows: which rows the
\* seeded shuffle picks is not determined here, only that rows of every
\* class are held out and rows of every class remain.
IsSplit(buf, T) ==
    /\ T \subseteq Indices(buf)
    /\ Cardinality(T) = NTest(Len(buf))
    /\ \A y \in Labels : /\ WithLabel(buf, y) \cap T # {}
                         /\ WithLabel(buf, y) \ T # {}
Splits(buf) == {T \in SUBSET Indices(buf) : IsSplit(buf, T)}

\* What train() can be given as its held-out rows: a split when it gets as
\* far as splitting, nothing otherwise.
GetsToSplit(buf) ==
    /\ Len(buf) >= MIN_SAMPLES /\ ~Ragged(buf)
    /\ \A y \in Labels : WithLabel(buf, y) # {}
    /\ ~SplitFails(buf)
TestChoices(buf) == IF GetsToSplit(buf) THEN Splits(buf) ELSE {{}}

\* The scaler predict() applies
TrainedScaler(c) == c.scaler

ActiveScaler(c) == IF c.calibrated.set THEN c.calibrated ELSE c.scaler

\* predict() on feature vector feat
PredictOut(c, feat) ==
    IF ~c.model.set \/ ~c.scaler.set
    THEN [NoOut EXCEPT !.res = "not_ready", !.feat = feat]
    ELSE LET active == ActiveScaler(c)
         IN  IF \/ ~active.fitted \/ active.dim # feat.dim
                \/ ~c.model.fitted \/ c.model.dim # feat.dim
             THEN [NoOut EXCEPT !.res = "raised", !.feat = feat]
             ELSE [res |-> "value", model |-> c.model, mean |-> active.mean,
                   var |-> active.var, feat |-> feat]

ClfCanCall == IsClassifier /\ calls < MaxOps

Returned(c, op, res) ==
    [c EXCEPT !.last = [NoLast EXCEPT !.op = op, !.res = res,
                                      !.counts = GetSampleCounts(c.buf)]]

\* add_samples_batch: n samples of one label
AddSamplesBatch(n, label, sweepInput) ==
    /\ ClfCanCall
    /\ Len(clf.buf) + n <= MaxBuf
    /\ LET row == [f |-> ToFeatures(clf.use_sweep, sweepInput, ValueOf(label)),
                   y |-> label]
           c == [clf EXCEPT !.buf = @ \o Rows(n, row)]
       IN  clf' = Returned(c, "add", "ok")
    /\ calls' = calls + 1
    /\ UNCHANGED <<variant, mon, disk, pc, obs, sim, hw, dev, cl, gui, thr, conn, srv>>

\* clear_samples
ClearSamples ==
    /\ ClfCanCall
    /\ clf' = Returned([clf EXCEPT !.buf = <<>>], "clear", "ok")
    /\ calls' = calls + 1
    /\ UNCHANGED <<variant, mon, disk, pc, obs, sim, hw, dev, cl, gui, thr, conn, srv>>

\* SingleTerminalApp._on_sweep_toggle: classifier.use_sweep = sweep_var.get()
SweepToggle(b) ==
    /\ ClfCanCall
    /\ clf.use_sweep # b
    /\ clf' = Returned([clf EXCEPT !.use_sweep = b], "toggle", "ok")
    /\ calls' = calls + 1
    /\ UNCHANGED <<variant, mon, disk, pc, obs, sim, hw, dev, cl, gui, thr, conn, srv>>

\* train(): numpy is what np.array does with a ragged buffer, test the rows
\* train_test_split holds out.
Train(numpy, test) ==
    /\ ClfCanCall
    /\ IF GetsToSplit(clf.buf) THEN IsSplit(clf.buf, test) ELSE test = {}
    /\ calls' = calls + 1
    /\ LET buf == clf.buf
           fitted == FitScaler(buf, FitRows(buf, test))
           network == [set |-> TRUE, fitted |-> ~FitFails(buf, test),
                       dim |-> buf[1].f.dim, train |-> Indices(buf) \ test,
                       test |-> test, data |-> DataOf(buf)]
       IN  IF Len(buf) < MIN_SAMPLES
           THEN clf' = Returned(clf, "train", "insufficient")
           ELSE IF Ragged(buf) /\ numpy = "raises"
           THEN clf' = Returned(clf, "train", "ragged_error")
           ELSE IF \E y \in Labels : WithLabel(buf, y) = {}
           THEN clf' = Returned(clf, "train", "single_class")
           ELSE IF Ragged(buf)
           THEN clf' = Returned([clf EXCEPT !.scaler = UnfittedScaler,
                                            !.before = NoBefore],
                                "train", "scaler_error")
           ELSE IF SplitFails(buf)
           THEN clf' = Returned([clf EXCEPT !.scaler = fitted,
                                            !.before = NoBefore],
                                "train", "split_error")
           ELSE clf' = Returned([clf EXCEPT !.scaler = fitted,
                                            !.model = network,
                                            !.before = NoBefore],
                                "train", IF network.fitted THEN "ok"
                                         ELSE "fit_error")
    /\ UNCHANGED <<variant, mon, disk, pc, obs, sim, hw, dev, cl, gui, thr, conn, srv>>

\* predict(magnitude, phase, sweep_features)
Predict(v, sweepInput) ==
    /\ ClfCanCall
    /\ calls' = calls + 1
    /\ LET out == PredictOut(clf, ToFeatures(clf.use_sweep, sweepInput, v))
       IN  clf' = [clf EXCEPT
                     !.last = [NoLast EXCEPT !.op = "predict", !.res = out.res,
                                             !.out = out,
                                             !.sweepInput = sweepInput,
                                             !.counts = GetSampleCounts(clf.buf)]]
    /\ UNCHANGED <<variant, mon, disk, pc, obs, sim, hw, dev, cl, gui, thr, conn, srv>>

\* The shifted copy calibrate() builds
ShiftedCopy(scaler, drift) ==
    [scaler EXCEPT !.mean = RAdd(scaler.mean, drift)]

\* calibrate(released_features): n feature vectors Feat(d, v)
Calibrate(numpy, n, d, v) ==
    /\ ClfCanCall /\ HasCalibration
    /\ calls' = calls + 1
    /\ LET buf == clf.buf
           released == WithLabel(buf, 0)
           c == [clf EXCEPT
                   !.before = IF clf.calibrated.set THEN @
                              ELSE [valid |-> TRUE, shifted |-> FALSE,
                                    model |-> clf.model,
                                    scaler |-> clf.scaler]]
       IN  IF ~clf.scaler.set
           THEN clf' = Returned(clf, "calibrate", "not_ready")
           ELSE IF n = 0
           THEN clf' = Returned(c, "calibrate", "no_samples")
           ELSE IF Ragged(buf) /\ numpy = "raises"
           THEN clf' = Returned(c, "calibrate", "ragged_error")
           ELSE IF released = {}
           THEN clf' = Returned(c, "calibrate", "no_baseline")
           ELSE IF \/ \E i, j \in released : buf[i].f.dim # buf[j].f.dim
                   \/ \E i \in released : buf[i].f.dim # d
           THEN clf' = Returned(c, "calibrate", "shape_error")
           ELSE LET drift == RSub(Rat(v, 1), MeanOf(buf, released))
                    dimOk == \A i \in released : buf[i].f.dim = clf.scaler.dim
                IN  IF ~clf.scaler.fitted \/ ~dimOk
                    THEN clf' = Returned([c EXCEPT !.calibrated = UnfittedScaler],
                                         "calibrate", "shape_error")
                    ELSE clf' = [Returned([c EXCEPT !.calibrated =
                                               ShiftedCopy(clf.scaler, drift)],
                                          "calibrate", "ok")
                                 EXCEPT !.last.drift = drift,
                                        !.before.shifted = @ \/ drift # RZero]
    /\ UNCHANGED <<variant, mon, disk, pc, obs, sim, hw, dev, cl, gui, thr, conn, srv>>

\* reset_calibration()
ResetCalibration ==
    /\ ClfCanCall /\ HasCalibration
    /\ calls' = calls + 1
    /\ clf' = Returned([clf EXCEPT !.calibrated = NoScaler], "reset", "ok")
    /\ UNCHANGED <<variant, mon, disk, pc, obs, sim, hw, dev, cl, gui, thr, conn, srv>>

\* The files save() writes, in the order it writes them
SaveOrder == <<"model", "scaler", "meta", "data">>

\* Whether save() writes the training-data file: `if self._X_buf:`
WritesData(buf) == buf # <<>>

\* The directory after save() has written the first k files of SaveOrder
Written(d, c, k, id) ==
    [d EXCEPT
       !.model = IF k >= 1 THEN c.model ELSE @,
       !.scaler = IF k >= 2 THEN c.scaler ELSE @,
       !.meta = IF k >= 3 THEN [set |-> TRUE, use_sweep |-> c.use_sweep] ELSE @,
       !.data = IF k >= 4 /\ WritesData(c.buf)
                THEN [set |-> TRUE, buf |-> c.buf, object |-> Ragged(c.buf)]
                ELSE @,
       !.by = [f \in DOMAIN @ |->
                 IF \/ f = "model" /\ k >= 1
                    \/ f = "scaler" /\ k >= 2
                    \/ f = "meta" /\ k >= 3
                    \/ f = "data" /\ k >= 4 /\ WritesData(c.buf)
                 THEN id ELSE @[f]],
       !.saves = id]

\* save(): each file is opened and written in place, one after the other.
\* stop < 4: the call is interrupted (or a write raises) after `stop` files.
Save(numpy, stop) ==
    /\ ClfCanCall
    /\ calls' = calls + 1
    /\ IF ~clf.model.set \/ ~clf.scaler.set
       THEN /\ clf' = Returned(clf, "save", "not_ready")
            /\ disk' = disk
       ELSE LET id == disk.saves + 1
                raises == WritesData(clf.buf) /\ Ragged(clf.buf) /\ numpy = "raises"
                k == IF raises /\ stop = 4 THEN 3 ELSE stop
                done == k = 4 \/ (k = 3 /\ ~WritesData(clf.buf))
                d == Written(disk, clf, k, id)
            IN  /\ clf' = Returned(clf, "save", IF done THEN "ok" ELSE "interrupted")
                /\ disk' = [d EXCEPT
                              !.snap = IF done
                                       THEN [set |-> TRUE, model |-> clf.model,
                                             scaler |-> clf.scaler,
                                             use_sweep |-> clf.use_sweep,
                                             data |-> DataOf(clf.buf)]
                                       ELSE [@ EXCEPT !.set = FALSE]]
    /\ UNCHANGED <<variant, mon, pc, obs, sim, hw, dev, cl, gui, thr, conn, srv>>

\* load()
Load ==
    /\ ClfCanCall
    /\ calls' = calls + 1
    /\ IF ~disk.model.set \/ ~disk.scaler.set
       THEN clf' = Returned(clf, "load", "false")
       ELSE LET c == [clf EXCEPT
                        !.model = disk.model,
                        !.scaler = disk.scaler,
                        !.use_sweep = IF disk.meta.set THEN disk.meta.use_sweep
                                      ELSE disk.scaler.dim > DIM_2D,
                        !.before = NoBefore]
            IN  IF disk.data.set /\ disk.data.object
                THEN clf' = Returned(c, "load", "false")
                ELSE IF disk.data.set
                THEN clf' = Returned([c EXCEPT !.buf = disk.data.buf], "load", "true")
                ELSE clf' = Returned(c, "load", "true")
    /\ UNCHANGED <<variant, mon, disk, pc, obs, sim, hw, dev, cl, gui, thr, conn, srv>>

\* PressClassifierModel(): a fresh instance on the same model directory
NewInstance ==
    /\ ClfCanCall
    /\ calls' = calls + 1
    /\ clf' = Returned(NewClassifier, "new", "ok")
    /\ UNCHANGED <<variant, mon, disk, pc, obs, sim, hw, dev, cl, gui, thr, conn, srv>>

\* A model directory left by an earlier session, in which 2-D samples were
\* collected, trained on and saved: three released and three pressed
\* samples, or five and four where the network is fitted with early
\* stopping (which needs seven training rows).
EarlierBuf ==
    IF EarlyStopping
    THEN Rows(5, [f |-> Feat(DIM_2D, ReleasedValue), y |-> 0])
            \o Rows(4, [f |-> Feat(DIM_2D, PressedValue), y |-> 1])
    ELSE Rows(3, [f |-> Feat(DIM_2D, ReleasedValue), y |-> 0])
            \o Rows(3, [f |-> Feat(DIM_2D, PressedValue), y |-> 1])
EarlierTest == {1, Len(EarlierBuf)}
EarlierDir ==
    [EmptyDir EXCEPT
       !.model = [set |-> TRUE, fitted |-> TRUE, dim |-> DIM_2D,
                  train |-> Indices(EarlierBuf) \ EarlierTest,
                  test |-> EarlierTest, data |-> DataOf(EarlierBuf)],
       !.scaler = FitScaler(EarlierBuf, FitRows(EarlierBuf, EarlierTest)),
       !.meta = [set |-> TRUE, use_sweep |-> FALSE],
       !.data = [set |-> TRUE, buf |-> EarlierBuf, object |-> FALSE]]

----------------------------------------------------------------------------

Init ==
    /\ variant \in Variants
    /\ calls = 0
    /\ pc = IdlePc
    /\ obs = NoObs
    /\ sim = [connected |-> FALSE, gt |-> DefaultPos, sets |-> 0, sid |-> 0]
    /\ hw = [connected |-> FALSE, hdwf |-> 0, arduino |-> "none",
             last_sweep |-> NoSweep]
    /\ dev = [open |-> {}, next |-> 1]
    /\ cl = NewClient
    /\ gui = NewGui
    /\ thr = IF variant = "net_raw" THEN <<NewThread("gui"), NewThread("peer")>>
             ELSE IF HasGui THEN <<NewThread("gui")>> ELSE <<>>
    /\ conn = IF variant = "net_raw" THEN <<NewConn, NewConn>>
              ELSE IF HasGui THEN <<NewConn>> ELSE <<>>
    /\ srv = [up |-> TRUE, clients |-> {}, touch |-> DefaultPos, ver |-> 0,
              tasks |-> <<>>, bad |-> 0,
              applied |-> [i \in 1..MaxCalls |-> 0],
              meas |-> [id |-> 0, by |-> 0]]
    /\ mon = NewMonitor
    /\ clf = NewClassifier
    /\ disk \in IF IsClassifier THEN {EmptyDir, EarlierDir} ELSE {EmptyDir}

Next ==
    \/ SimConnect
    \/ SimDisconnect
    \/ \E p \in TouchInputs : SimSetGroundTruth(p)
    \/ SimGetGroundTruth
    \/ SimMeasure
    \/ \E s, o, u \in BOOLEAN : HwConnect(s, o, u)
    \/ \E o, u \in BOOLEAN : Ad3Connect(o, u)
    \/ HwDisconnect
    \/ \E p \in TouchInputs : HwSetGroundTruth(p)
    \/ HwGetGroundTruth
    \/ HwMeasure
    \/ \E d \in BOOLEAN : HwPoll(d)
    \/ \E n \in SweepSizes : Ad3Sweep(n)
    \/ \E f \in SweepPolls : Ad3SweepPoint(f)
    \/ Ad3ExtractSweepFeatures
    \/ \E k \in ThreadIds : ServerHandle(k)
    \/ ServerBroadcastRun
    \/ \E k \in ThreadIds : ServerHandlerExit(k)
    \/ \E t \in ThreadIds : ThreadConnectFail(t)
    \/ \E t \in ThreadIds : ThreadConnected(t)
    \/ \E t \in ThreadIds : ThreadRecv(t)
    \/ \E t \in ThreadIds, ok \in BOOLEAN : ThreadRunTask(t, ok)
    \/ \E t \in ThreadIds : ThreadConnClosed(t)
    \/ \E t \in ThreadIds : ThreadConnLost(t)
    \/ \E c \in BOOLEAN : ServerStop(c)
    \/ \E m \in RawMessages(calls + 1) : RawSend(m)
    \/ \E p \in TouchInputs : GuiClick(p)
    \/ NetConnect
    \/ NetConnectReturn
    \/ NetDisconnect
    \/ \E p \in TouchInputs : NetSetGroundTruth(p)
    \/ NetGetGroundTruth
    \/ NetMeasure
    \/ NetMeasureRead
    \/ NetMeasureTimeout
    \/ \E r, c, i \in BOOLEAN : MonStart(r, c, i)
    \/ MonStop
    \/ \E o \in TickOutcomes : MonTimer(o)
    \/ \E n \in BatchSizes, y \in Labels, sw \in BOOLEAN : AddSamplesBatch(n, y, sw)
    \/ ClearSamples
    \/ \E b \in BOOLEAN : SweepToggle(b)
    \/ ClfCanCall /\ \E np \in Numpy(clf.buf), T \in TestChoices(clf.buf) : Train(np, T)
    \/ \E v \in PredictValues, sw \in BOOLEAN : Predict(v, sw)
    \/ \E np \in Numpy(clf.buf), n \in CalibSizes :
          \E d \in CalibDims(n), v \in CalibValuesOf(n) : Calibrate(np, n, d, v)
    \/ ResetCalibration
    \/ \E np \in Numpy(clf.buf), stop \in 1..Len(SaveOrder) : Save(np, stop)
    \/ Load
    \/ NewInstance

Spec == Init /\ [][Next]_vars

\* Every event loop runs the tasks that are ready: the server's loop runs
\* the sends asyncio.gather queued, and each client thread's `async for`
\* takes the messages that arrived on its socket.
MaxThreads == MaxCalls + 1

FairSpec ==
    /\ Spec
    /\ WF_vars(ServerBroadcastRun)
    /\ \A t \in 1..MaxThreads : WF_vars(ThreadRecv(t))

----------------------------------------------------------------------------
(* History fields used by the properties below; no action reads them:      *)
(*   srv.ver, Msg.ver   number of set_touch messages applied so far         *)
(*   srv.applied[i]     value of srv.ver once the set_touch of call i was   *)
(*                      applied, 0 before                                   *)
(*   srv.bad            number of malformed messages handled so far         *)
(*   srv.meas           id and connection of the measure_impedance request  *)
(*                      handled last                                        *)
(*   conn[k].owed       srv.ver of the latest set_touch applied while k was *)
(*                      registered, until k receives a state_update at      *)
(*                      least as new                                        *)
(*   thr[t].upd         the last state_update thread t received             *)
(*   cl.asked           the application has issued a request                *)
(*   cl.sid, sim.sid    call number of the last set_ground_truth            *)
(*   obs                the caller's view of its latest API call            *)

\* C1: when the server handles set_touch {x,y} it stores (x,y) and queues
\* one state_update carrying exactly (x,y) for every client registered at
\* that moment, the sender included; when the queued sends run, every such
\* client whose connection is still open gets that message.
C1_BroadcastToAll ==
    [][ /\ ((srv'.ver # srv.ver /\ srv'.bad = srv.bad) =>
              /\ Len(srv'.tasks) = Len(srv.tasks) + 1
              /\ LET b == srv'.tasks[Len(srv'.tasks)]
                     i == CHOOSE j \in 1..MaxCalls : srv'.applied[j] # srv.applied[j]
                 IN  /\ srv'.touch = InputOf(i)
                     /\ b.to = srv.clients
                     /\ b.by \in b.to
                     /\ b.msg.type = "state_update"
                     /\ <<b.msg.x, b.msg.y>> = InputOf(i))
        /\ (Len(srv'.tasks) < Len(srv.tasks) =>
              \A k \in Head(srv.tasks).to :
                  conn[k].st = "open" =>
                      conn'[k].s2c = Append(conn[k].s2c, Head(srv.tasks).msg))
      ]_vars

\* C1 witness: the GUI set a position; the application's client, which
\* never sent a request, and the GUI itself both received its state_update.
C1_Witness ==
    /\ variant = "net"
    /\ gui.touch # DefaultPos
    /\ ~cl.asked
    /\ cl.websocket # 0
    /\ thr[cl.websocket].upd.ver >= 1 /\ thr[cl.websocket].upd.pos = gui.touch
    /\ thr[GuiThread].upd.ver >= 1 /\ thr[GuiThread].upd.pos = gui.touch

\* Nothing is on its way: no queued broadcast, no message in either
\* direction, no coroutine waiting on a loop.
Quiet ==
    /\ srv.tasks = <<>>
    /\ \A t \in ThreadIds :
          conn[t].c2s = <<>> /\ conn[t].s2c = <<>> /\ thr[t].tasks = <<>>

\* The client of thread t is registered at the server and still connected.
Live(t) == t \in srv.clients /\ conn[t].st = "open" /\ thr[t].st = "open"

\* C2: every set_touch the server applied is eventually followed, at every
\* client that stays connected, by receipt of a state_update; and when
\* nothing is in flight any more, the last state_update each connected
\* client received carries the server's final position.
C2_LatestWins ==
    /\ \A k \in 1..MaxThreads :
          (k \in ThreadIds /\ conn[k].owed > 0)
              ~> (k \notin ThreadIds \/ conn[k].owed = 0 \/ conn[k].st # "open")
    /\ [](Quiet =>
            \A t \in ThreadIds :
                Live(t) => thr[t].upd = [pos |-> srv.touch, ver |-> srv.ver])

\* C2 witness: two positions were set, everything was delivered, and the
\* application's client holds the second one.
C2_Witness ==
    /\ variant = "net"
    /\ srv.ver = 2
    /\ Quiet
    /\ cl.websocket # 0 /\ Live(cl.websocket)
    /\ thr[cl.websocket].upd = [pos |-> srv.touch, ver |-> 2]

\* C3: the networked measure_impedance_vector returns only a response that
\* carries the id of its own request; it reads at most two responses, the
\* second only after a mismatching first, and a mismatching second makes
\* it raise.
C3_OnlyOwnResponse ==
    (variant = "net" /\ obs.op = "measure") =>
        /\ obs.reads <= 2
        /\ (obs.res = "ok" => obs.reads >= 1 /\ obs.rid = obs.req)
        /\ (pc.at = "m2" => obs.reads = 1 /\ obs.rid # obs.req)
        /\ (obs.reads >= 1 /\ obs.rid # obs.req =>
               IF obs.reads = 1 THEN pc.at = "m2" \/ obs.res = "raised"
               ELSE obs.res = "raised")

\* C3 witness: a stale reply came first, the second read matched.
C3_Witness ==
    /\ variant = "net"
    /\ obs.op = "measure"
    /\ obs.res = "ok"
    /\ obs.reads = 2

\* C4: a networked measure_impedance_vector or get_ground_truth that
\* returns a value has taken a reply of the server for it; without a reply
\* the call reports a failure.
C4_ValueOnlyFromReply ==
    (variant = "net" /\ obs.op \in {"get", "measure"}
        /\ obs.res \in {"value", "ok"}) => obs.reads >= 1

\* C5: on both hardware sources the done-status polling of one measurement
\* stops after TIMEOUT_POLLS unsuccessful polls.
C5_PollingBounded ==
    (IsHw /\ pc.at = "poll") => pc.polls <= TIMEOUT_POLLS

\* C6: after connect() returned false and until the next call,
\* is_connected() is false, no analyzer handle or serial port is open and
\* the background thread of the attempt has ended.
C6_CleanFailure ==
    (obs.op = "connect" /\ obs.res = "false") =>
        /\ ~IsConnected
        /\ IsHw => (dev.open = {} /\ hw.arduino # "open")
        /\ variant = "net" => thr[cl.thread].st = "ended"

\* The background threads of the application's client that still run.
AppThreads == {t \in ThreadIds : thr[t].owner = "app" /\ thr[t].st # "ended"}

\* C7: after connect() was called on a connected source and returned, a
\* source that reports is_connected() holds exactly one open analyzer
\* handle, its own (hardware), or runs exactly one background thread with
\* its connection (networked client).
C7_SecondConnectKeepsOne ==
    (obs.op = "connect" /\ obs.wasConn /\ obs.res # "pending" /\ IsConnected) =>
        /\ IsHw => dev.open = {hw.hdwf}
        /\ variant = "net" => Cardinality(AppThreads) = 1

\* C8: the second of two disconnect() calls in a row raises nothing, closes
\* no handle or socket that was closed before, and leaves is_connected()
\* false.
C8_SecondDisconnectSafe ==
    (obs.op = "disconnect" /\ obs.prev = "disconnect") =>
        /\ obs.res = "ok"
        /\ ~obs.reclose
        /\ ~IsConnected

\* C9: in every variant a measure_impedance_vector called while
\* is_connected() is false raises the not-connected error and issues no
\* device command and no request.
C9_NotConnectedRefused ==
    (obs.op = "measure" /\ ~obs.wasConn) =>
        /\ obs.res = "notconn"
        /\ ~obs.io
        /\ pc.at = "idle"

\* C9 witness: the networked client was connected, then disconnected, and
\* the measurement that followed was refused.
C9_Witness ==
    /\ variant = "net"
    /\ calls = 3
    /\ obs.op = "measure"
    /\ obs.prev = "disconnect"
    /\ obs.res = "notconn"
    /\ cl.websocket # 0

\* C10: a measurement that returned after a set_ground_truth(x, y) of the
\* same source is computed from (x, y) (local simulator) or from a server
\* position at least as new as the one that set_touch stored (networked
\* client).
C10_MeasureSeesSet ==
    (obs.op = "measure" /\ obs.res = "ok") =>
        /\ (variant = "sim" /\ sim.sid # 0) => obs.pos = InputOf(sim.sid)
        /\ (variant = "net" /\ cl.sid # 0) =>
               (srv.applied[cl.sid] # 0 /\ obs.ver >= srv.applied[cl.sid])

\* C11: handling measure_impedance {request_id} from connection k appends
\* exactly one impedance_response to k's stream, with that request_id and
\* the shared touch position of that moment as ground_truth; the touch
\* position, the pending broadcasts and every other client's stream stay
\* as they were.
C11_ResponseToRequesterOnly ==
    [][ srv'.meas # srv.meas =>
          LET k == srv'.meas.by
          IN  /\ srv'.touch = srv.touch
              /\ srv'.tasks = srv.tasks
              /\ \A j \in ThreadIds \ {k} : conn'[j].s2c = conn[j].s2c
              /\ conn[k].st = "open" =>
                    conn'[k].s2c =
                        Append(conn[k].s2c,
                               Msg("impedance_response", srv.touch[1], srv.touch[2],
                                   srv'.meas.id, 0, srv.ver))
      ]_vars

\* C11 witness: the GUI set a position, the application measured, and the
\* response it read carries its request id and that position while the
\* GUI's stream holds no response.
C11_Witness ==
    /\ variant = "net"
    /\ gui.connected
    /\ obs.op = "measure" /\ obs.res = "ok"
    /\ obs.rid = srv.meas.id
    /\ obs.pos = gui.touch /\ gui.touch # DefaultPos
    /\ conn[GuiThread].s2c = <<>>

(* C12: while the monitor loop is stopped no measurement is taken and no   *)
(* classification is pushed, until monitoring is started again; a loop    *)
(* body that begins while monitoring is on runs to its end (it pushes its  *)
(* result or reports its error): stopping only keeps later ticks from      *)
(* running.                                                                *)
C12_StoppedLoopIsSilent ==
    [][ /\ (~mon.monitoring /\ ~mon'.monitoring) =>
              /\ mon'.acquired = mon.acquired
              /\ mon'.pushed = mon.pushed
              /\ mon'.ticks = mon.ticks
        /\ (mon.monitoring /\ mon' # mon /\ mon'.last # "stop") =>
              /\ mon'.ticks = mon.ticks + 1
              /\ \/ mon'.pushed = mon.pushed + 1
                 \/ mon'.errors = mon.errors + 1
      ]_vars

\* Monitoring was stopped after a result had been pushed, and the callback
\* left pending by the last tick has fired and done nothing.
C12_Witness ==
    /\ IsMonitorApp
    /\ ~mon.monitoring
    /\ mon.last = "skipped"
    /\ mon.pushed >= 1
    /\ mon.timers = 0

(* C13: a tick in which the DataSource or the classifier raises reports    *)
(* the error on the status label, leaves monitoring on and schedules the   *)
(* next tick.                                                              *)
C13_FailingTickKeepsLoop ==
    [][ mon'.errors # mon.errors =>
          /\ mon'.status = "Error"
          /\ mon'.monitoring
          /\ mon'.timers = IF mon.monitoring THEN mon.timers ELSE mon.timers + 1
          /\ mon'.timers >= 1
      ]_vars

\* A tick ran to a result after an earlier tick had failed.
C13_Witness ==
    /\ IsMonitorApp
    /\ mon.monitoring
    /\ mon.errors >= 1
    /\ mon.last = "ok"
    /\ mon.timers >= 1

\* The step is a call of classifier operation op.
ClfCall(op) == calls' # calls /\ clf'.last.op = op

\* What predict() returned for feature vector f when calibrate() was called
PredictedBefore(c, f) ==
    PredictOut([c EXCEPT !.model = c.before.model, !.scaler = c.before.scaler,
                         !.calibrated = NoScaler], f)

(* C14: calibrate() leaves the trained scaler (and the network) as they    *)
(* were; a calibrate() that succeeds installs a copy of the scaler with    *)
(* the same variance and the mean moved by the drift, and every predict()  *)
(* made while that copy is installed scales with it; once                  *)
(* reset_calibration() has been called, predict() returns for every        *)
(* feature vector what it returned when calibrate() was called.            *)
C14_CalibrationReversible ==
    [][ /\ ClfCall("calibrate") =>
              /\ clf'.scaler = clf.scaler
              /\ clf'.model = clf.model
              /\ clf'.last.res = "ok" =>
                    /\ clf'.calibrated.var = clf.scaler.var
                    /\ clf'.calibrated.mean =
                           RAdd(clf.scaler.mean, clf'.last.drift)
        /\ (ClfCall("predict") /\ clf.calibrated.set
                /\ clf'.last.res = "value") =>
              /\ clf'.last.out.mean = clf.calibrated.mean
              /\ clf'.last.out.var = clf.calibrated.var
        /\ (clf'.before.valid /\ ~clf'.calibrated.set) =>
              \A f \in Feats : PredictOut(clf', f) = PredictedBefore(clf', f)
      ]_vars

\* A calibration with a drift other than zero was made on a classifier that
\* predicts, and has been reset.
C14_Witness ==
    /\ HasCalibration
    /\ clf.last.op = "reset"
    /\ clf.before.valid /\ clf.before.shifted
    /\ ~clf.calibrated.set
    /\ \E f \in Feats : PredictedBefore(clf, f).res = "value"

(* C15: train() on three or fewer samples fails with the insufficient-data *)
(* error, train() on four or more samples of one label fails with the      *)
(* single-class error, and either way the network, the scaler and the      *)
(* buffer are what they were.                                              *)
C15_TrainPreconditions ==
    [][ ClfCall("train") =>
          /\ Len(clf.buf) < MIN_SAMPLES =>
                /\ clf'.last.res = "insufficient"
                /\ clf'.model = clf.model /\ clf'.scaler = clf.scaler
                /\ clf'.buf = clf.buf
          /\ (Len(clf.buf) >= MIN_SAMPLES
                 /\ \E y \in Labels : WithLabel(clf.buf, y) = {}) =>
                /\ clf'.last.res = "single_class"
                /\ clf'.model = clf.model /\ clf'.scaler = clf.scaler
                /\ clf'.buf = clf.buf
      ]_vars

(* C16: predict() returns a result only when the input it was given is of  *)
(* the mode the network was trained in: sweep features for a 10-D network, *)
(* magnitude and phase alone for a 2-D network.                            *)
C16_MismatchedModeFails ==
    (clf.last.op = "predict" /\ clf.last.res = "value") =>
        (clf.last.sweepInput <=> clf.last.out.model.dim = DIM_SWEEP)

(* C17: a load() that succeeds after a complete save() leaves the          *)
(* instance with the network, scaler, sweep flag and buffer that were      *)
(* saved.                                                                  *)
C17_LoadRestoresSaved ==
    (clf.last.op = "load" /\ clf.last.res = "true" /\ disk.snap.set) =>
        /\ clf.model = disk.snap.model
        /\ clf.scaler = disk.snap.scaler
        /\ clf.use_sweep = disk.snap.use_sweep
        /\ DataOf(clf.buf) = disk.snap.data

\* The files present in the model directory
Present(d) ==
    {f \in DOMAIN d.by :
        CASE f = "model" -> d.model.set
          [] f = "scaler" -> d.scaler.set
          [] f = "meta" -> d.meta.set
          [] OTHER -> d.data.set}

(* C18: the files in the model directory were all written by one save().   *)
C18_SaveAtomic ==
    \A f, g \in Present(disk) : disk.by[f] = disk.by[g]

(* C19: after a successful train(), no held-out row is among the rows the  *)
(* scaler was fitted on.                                                   *)
C19_ScalerFitOnTrainSplit ==
    (clf.last.op = "train" /\ clf.last.res = "ok") =>
        clf.scaler.idx \cap clf.model.test = {}

(* C20: train() leaves the buffer as it was, get_sample_counts() is the    *)
(* same before and after it, and a buffer of three released and three      *)
(* pressed 2-D samples trains successfully.                                *)
C20_TrainKeepsBuffer ==
    [][ ClfCall("train") =>
          /\ clf'.buf = clf.buf
          /\ GetSampleCounts(clf'.buf) = GetSampleCounts(clf.buf)
          /\ (GetSampleCounts(clf.buf) = <<3, 3>> /\ ~Ragged(clf.buf)) =>
                clf'.last.res = "ok"
      ]_vars

(* C21: a sweep_impedance() call on a connected analyzer always returns    *)
(* its result, whatever points time out; the five arrays it returns have   *)
(* the same length; every point whose polling ended with done holds the   *)
(* analyzer's reading, and a point whose polling timed out holds no        *)
(* reading of the analyzer.                                                *)
C21_TimeoutSkipsPoint ==
    (variant = "ad3_sweep" /\ obs.op = "sweep" /\ obs.wasConn
        /\ pc.at = "idle") =>
        LET sw == hw.last_sweep
            n == Len(sw.frequencies)
        IN  /\ obs.res = "ok" /\ sw.set
            /\ Len(sw.magnitude) = n /\ Len(sw.phase) = n
            /\ Len(sw.resistance) = n /\ Len(sw.reactance) = n
            /\ \A i \in 1..n :
                  /\ sw.how[i] = "done" => sw.stored[i]
                  /\ sw.how[i] = "timeout" => ~sw.stored[i]

(* C22: the record extract_sweep_features() returns for a sweep of any     *)
(* number of points has exactly 10 named fields.                           *)
C22_TenNamedFields ==
    (obs.op = "extract" /\ obs.res = "ok") =>
        Cardinality(DOMAIN obs.out.fields) = DIM_SWEEP

(* C23: for a sweep of n >= 1 points the slices extract_sweep_features()   *)
(* averages over are the index ranges [0, n div 3), [n div 3, 2*(n div 3)) *)
(* and [2*(n div 3), n): together they hold every point exactly once, each *)
(* lies wholly before the next in frequency order, low and mid have the    *)
(* same size, and high has n mod 3 points more.                            *)
C23_ThreeBands ==
    (obs.op = "extract" /\ obs.res = "ok") =>
        LET n == obs.out.n
            low == obs.out.low
            mid == obs.out.mid
            high == obs.out.high
        IN  /\ n >= 1
            /\ low = {i \in 0..(n - 1) : i < n \div 3}
            /\ mid = {i \in 0..(n - 1) : n \div 3 <= i /\ i < 2 * (n \div 3)}
            /\ high = {i \in 0..(n - 1) : 2 * (n \div 3) <= i}
            /\ low \cup mid \cup high = 0..(n - 1)
            /\ low \cap mid = {} /\ mid \cap high = {} /\ low \cap high = {}
            /\ \A i \in low, j \in mid : i < j
            /\ \A i \in mid, j \in high : i < j
            /\ \A i \in low, j \in high : i < j
            /\ Cardinality(low) = Cardinality(mid)
            /\ Cardinality(high) = Cardinality(low) + (n % 3)

\* Features were extracted from a sweep of four points, one of them timed
\* out: bands of one, one and two points.
C23_Witness ==
    /\ obs.op = "extract" /\ obs.res = "ok"
    /\ obs.out.n = 4
    /\ Cardinality(obs.out.low) = 1
    /\ Cardinality(obs.out.high) = 2
    /\ \E i \in 1..4 : hw.last_sweep.how[i] = "timeout"

\* The simulator returned a vector measured with the touch at (50, 50).
MeasuredAtCentre ==
    /\ variant = "sim"
    /\ obs.op = "measure" /\ obs.res = "ok"
    /\ obs.pos = <<50, 50>>

(* C24 as claimed: with the touch at (50, 50) the distance to the          *)
(* source-sink segment, the effective distance and the magnitude before    *)
(* noise are the same for all six measurement pairs.                       *)
C24_AllPairsEqual ==
    MeasuredAtCentre =>
        \A i, j \in 1..N_PAIRS :
            /\ obs.vec[i].dist2 = obs.vec[j].dist2
            /\ obs.vec[i].eff = obs.vec[j].eff
            /\ obs.vec[i].clean = obs.vec[j].clean

\* The pairs along a side of the gel and the pairs across it
SidePairs ==
    {i \in 1..N_PAIRS :
        LET s == TERMINAL_POSITIONS[MEASUREMENT_PAIRS[i][1]]
            k == TERMINAL_POSITIONS[MEASUREMENT_PAIRS[i][2]]
        IN  s[1] = k[1] \/ s[2] = k[2]}
DiagonalPairs == (1..N_PAIRS) \ SidePairs

(* C24, amended: with the touch at (50, 50) the distance to the segment is *)
(* 50 mm for each of the four pairs along a side and 0 for the two         *)
(* diagonal pairs, whose segments pass through the touch; the effective    *)
(* distance and the magnitude before noise are equal among the side pairs  *)
(* and equal among the diagonal pairs, and smaller for the diagonal pairs. *)
C24_SidesAndDiagonals ==
    MeasuredAtCentre =>
        /\ Cardinality(SidePairs) = 4 /\ Cardinality(DiagonalPairs) = 2
        /\ \A i \in SidePairs : obs.vec[i].dist2 = <<50 * 50, 1>>
        /\ \A i \in DiagonalPairs : obs.vec[i].dist2 = <<0, 1>>
        /\ \A i, j \in SidePairs :
              obs.vec[i].eff = obs.vec[j].eff /\ obs.vec[i].clean = obs.vec[j].clean
        /\ \A i, j \in DiagonalPairs :
              obs.vec[i].eff = obs.vec[j].eff /\ obs.vec[i].clean = obs.vec[j].clean
        /\ \A i \in DiagonalPairs, j \in SidePairs :
              obs.vec[i].eff < obs.vec[j].eff /\ obs.vec[i].clean < obs.vec[j].clean

\* A vector was measured at the centre right after connecting, and noise
\* raised one of its magnitudes.
C24_Witness ==
    /\ MeasuredAtCentre
    /\ Len(obs.vec) = N_PAIRS
    /\ obs.prev = "connect"
    /\ \E i \in 1..N_PAIRS : obs.vec[i].mag > obs.vec[i].clean

(* C25: at most one monitor tick is pending at any time, whatever the      *)
(* sequence of start and stop actions.                                     *)
C25_OneLoop ==
    IsMonitorApp => mon.timers <= 1

(* C26: a calibrated scaler that predict() would apply is the shifted copy *)
(* of the scaler the classifier holds now: fitted on the same rows, with   *)
(* the same dimension and scale.                                           *)
C26_CalibrationOfCurrentScaler ==
    (HasCalibration /\ clf.calibrated.set /\ clf.calibrated.fitted) =>
        /\ clf.calibrated.dim = clf.scaler.dim
        /\ clf.calibrated.var = clf.scaler.var
        /\ clf.calibrated.idx = clf.scaler.idx

----------------------------------------------------------------------------
(* C27: the cache of HILSClientSource under the two threads that write it  *)

\* The threads HILSClientSource started (one per connect call).
ClientThreads == {t \in ThreadIds : thr[t].owner = "app"}

\* srv.ver at the moment the server came to hold position p: 0 for the
\* position it starts with, else the version the set_touch carrying p
\* produced (every call sends its own position, see InputOf).
HeldSince(p) ==
    IF p = DefaultPos THEN 0
    ELSE srv.applied[CHOOSE i \in 1..MaxCalls : InputOf(i) = p]

\* get_ground_truth returns (self._latest_touch_x, self._latest_touch_y)
\* whenever it does not return None or raise.
GetGroundTruthValue == cl.latest

\* C27: once a background task of the client has applied a state_update
\* carrying position p, what get_ground_truth() returns is never a position
\* the server held before p.
C27_CacheNeverRegresses ==
    (variant = "net" /\ ~NotReady /\ ~LoopClosed) =>
        \A t \in ClientThreads : HeldSince(GetGroundTruthValue) >= thr[t].upd.ver
----------------------------------------------------------------------------
(* C29: a train() that fails after its precondition checks *)

\* The results of a train() that raised after the sample-count and
\* two-class checks: in the scaler fit, in train_test_split, in model.fit.
LateTrainFailures == {"scaler_error", "split_error", "fit_error"}

\* C29: a train() that fails after its precondition checks leaves the model
\* and the scaler as they were before the call.
C29_FailedTrainKeepsModel ==
    [][(IsClassifier /\ calls' = calls + 1 /\ clf'.last.op = "train"
            /\ clf'.last.res \in LateTrainFailures) =>
         (clf'.model = clf.model /\ clf'.scaler = clf.scaler)]_vars
----------------------------------------------------------------------------
(* C28: is_connected() of HILSClientSource and its socket *)

\* The thread that owns the client's socket is still in its receive loop
\* on an open socket, and self.loop has not been closed.
SocketInUse ==
    /\ cl.websocket # 0
    /\ thr[cl.websocket].st = "open"
    /\ ~LoopClosed

\* C28: is_connected() of the networked client is true only while its
\* socket to the server is open: once the background task has seen the
\* server close the connection, cleanly or with an error, or the event loop
\* has ended, is_connected() is false.
C28_ConnectedOnlyWhileOpen ==
    (HasClient /\ IsConnected) => SocketInUse

----------------------------------------------------------------------------
(* C30: malformed messages at the server *)

\* C30: handling a message that is not JSON, has an unknown type or is a
\* set_touch with a missing or non-numeric coordinate leaves the touch
\* position unchanged, queues and sends nothing, and leaves every
\* connection open and registered.
C30_MalformedIgnored ==
    [][srv'.bad # srv.bad =>
          /\ srv'.touch = srv.touch
          /\ srv'.ver = srv.ver
          /\ srv'.tasks = srv.tasks
          /\ srv'.clients = srv.clients
          /\ \A k \in ThreadIds :
                conn'[k].s2c = conn[k].s2c /\ conn'[k].st = conn[k].st]_vars
====
